---- MODULE Spec2Model ----
(***************************************************************************)
(* Model of the correlation-and-consolidation pipeline of contabil-cli     *)
(* (src/src/processamento_dados.py, src/src/main.py).                      *)
(*                                                                         *)
(* Strings that the code inspects character by character (tax ids) are     *)
(* sequences of one-character strings.  Monetary values are integers in    *)
(* cents (every value the code handles is rounded to two decimals): the    *)
(* number n is <<n>> and a missing number (pandas NaN) is << >>; a missing *)
(* text is the string NaN.  A table (DataFrame) is a sequence of records,  *)
(* its column names are a set of strings.                                  *)
(***************************************************************************)
EXTENDS Integers, Sequences, FiniteSets, TLC

VARIABLES
    \* validar_cnpj on its own
    entrada,            \* the string handed to validar_cnpj
    resultado,          \* what validar_cnpj returned for it
    edicoes,            \* number of edits applied to the starting string
    \* extraction and correlation of the files of one archive
    modulo,             \* the module whose definitions run: processamento_dados or main
    df_operadoras,      \* the registry table
    arquivo,            \* the extracted file the loop is at
    itens,              \* files and rows extracted so far
    fase,               \* "extraido": arquivo awaits processing; "processado": it was processed
    df_despesas,        \* what ler_despesas returned for arquivo
    colunas_usadas,     \* the column names correlacionar_dados resolved for arquivo
    correlacao,         \* what correlacionar_dados returned, or the exception it raised
    resultados,         \* what correlacionar_despesas_com_operadoras returned for arquivo
    todos_resultados,   \* the records accumulated over the files of the archive
    \* consolidation
    dados_processados,  \* the list of records handed to consolidar_dados_em_csv
    acrescimos,         \* number of records appended to the starting list
    consolidou,         \* consolidar_dados_em_csv has returned
    arquivos,           \* the four output files of consolidar_dados_em_csv
    excecao,            \* the exception consolidar_dados_em_csv caught, "" if none
    levantada,          \* the exception it raised to its caller, "" if it returned normally
    dados_validos,      \* the list filtrar_cnpjs_invalidos returned to it
    ordem_escrita,      \* the names of the files written, in the order of writing
    \* join of the consolidated file with the registry (over df_operadoras)
    arquivo_consolidado,  \* the consolidated CSV as juntar_dados_com_operadoras finds it
    juntou,               \* juntar_dados_com_operadoras has returned or raised
    erro_juncao,          \* the exception it raised, "" if none
    linhas_merge,         \* <<n>>: the merge returned n rows; << >>: it did not return
    arq_enriquecido,      \* dados_processados_com_operadoras.csv
    arq_inconsistencias,  \* the report of salvar_operadoras_duplicadas_com_inconsistencias
    stats                 \* <<the statistics it returned>>, << >> before it returns

varsCnpj == <<entrada, resultado, edicoes>>

varsCorr ==
    <<modulo, df_operadoras, arquivo, itens, fase, df_despesas, colunas_usadas, correlacao,
      resultados, todos_resultados>>

varsCons ==
    <<dados_processados, acrescimos, consolidou, arquivos, excecao, levantada,
      dados_validos, ordem_escrita>>

varsJoin ==
    <<arquivo_consolidado, juntou, erro_juncao, linhas_merge, arq_enriquecido,
      arq_inconsistencias, stats>>

vars == <<varsCnpj, varsCorr, varsCons, varsJoin>>

foraDeCnpj == <<varsCorr, varsCons, varsJoin>>

foraDeCorr == <<varsCnpj, varsCons, varsJoin>>

foraDeCons == <<varsCnpj, varsCorr, varsJoin>>

----------------------------------------------------------------------------
(* Bounds *)

MaxEdicoes == 2

\* files plus rows of one archive
MaxItensZip == 4

\* records appended to the starting list before consolidar_dados_em_csv runs
MaxAcrescimos == 2

\* rows of the registry table handed to juntar_dados_com_operadoras
MaxLinhasCadastro == 3

\* characters inserted in or removed from a monetary cell
MaxToques == 2

----------------------------------------------------------------------------
(* Values and tables *)

\* a missing value (float nan)
NaN == "NaN"

\* Python's None
Nenhum == "None"

TabelaVazia == [colunas |-> {}, linhas |-> << >>]

\* a number that may be missing: <<v>> is the value v (money in cents), << >> is NaN
Num(v) == <<v>>

SemValor == << >>

\* the outcome of a call: a returned table or a raised exception
Retorno(df) == [ok |-> TRUE, erro |-> "", df |-> df]

Excecao(e) == [ok |-> FALSE, erro |-> e, df |-> TabelaVazia]

NaoChamada == [ok |-> FALSE, erro |-> "", df |-> TabelaVazia]

\* no column name resolved
SemColunas == [despesas |-> Nenhum, operadoras |-> Nenhum, cnpj |-> Nenhum, razao |-> Nenhum]

\* an output file: not written, or written with these rows
NaoEscrito == [escrito |-> FALSE, linhas |-> << >>]

Escrito(linhas) == [escrito |-> TRUE, linhas |-> linhas]

NenhumArquivo ==
    [invalidos |-> NaoEscrito, desvio |-> NaoEscrito, duplicados |-> NaoEscrito,
     consolidado |-> NaoEscrito]

SeqToSet(s) == {s[i] : i \in 1..Len(s)}

RECURSIVE Concatenar(_)
\* the concatenation of a sequence of sequences
Concatenar(ss) == IF ss = << >> THEN << >> ELSE Head(ss) \o Concatenar(Tail(ss))

----------------------------------------------------------------------------
(* Characters *)

Digitos == {"0", "1", "2", "3", "4", "5", "6", "7", "8", "9"}

Pontuacao == {"."}

\* int(c) for a digit character c
ValorDigito(c) ==
    CASE c = "0" -> 0 [] c = "1" -> 1 [] c = "2" -> 2 [] c = "3" -> 3
      [] c = "4" -> 4 [] c = "5" -> 5 [] c = "6" -> 6 [] c = "7" -> 7
      [] c = "8" -> 8 [] c = "9" -> 9

EhDigito(c) == c \in Digitos

\* re.sub(r'\D', '', str(cnpj))
RemoverNaoDigitos(s) == SelectSeq(s, EhDigito)

RECURSIVE SomaPonderada(_, _, _)
\* soma = sum over i in range(n) of int(cnpj_numeros[i]) * peso[i]
SomaPonderada(numeros, peso, n) ==
    IF n = 0 THEN 0
    ELSE SomaPonderada(numeros, peso, n - 1) + ValorDigito(numeros[n]) * peso[n]

Peso1 == <<5, 4, 3, 2, 9, 8, 7, 6, 5, 4, 3, 2>>

Peso2 == <<6, 5, 4, 3, 2, 9, 8, 7, 6, 5, 4, 3, 2>>

\* the check digit without the "resto < 2" case
DigitoVerificadorSemLimiar(soma) == 11 - (soma % 11)

\* digito = 0 if resto < 2 else 11 - resto
DigitoVerificador(soma) ==
    LET resto == soma % 11 IN IF resto < 2 THEN 0 ELSE 11 - resto

\* cnpj_numeros == cnpj_numeros[0] * 14
TodosIguais(numeros) == \A i \in 1..Len(numeros) : numeros[i] = numeros[1]

validar_cnpj(cnpj) ==
    LET cnpj_numeros == RemoverNaoDigitos(cnpj) IN
    IF Len(cnpj_numeros) # 14 THEN FALSE
    ELSE IF TodosIguais(cnpj_numeros) THEN FALSE
    ELSE LET digito1 == DigitoVerificador(SomaPonderada(cnpj_numeros, Peso1, 12)) IN
         IF ValorDigito(cnpj_numeros[13]) # digito1 THEN FALSE
         ELSE LET digito2 == DigitoVerificador(SomaPonderada(cnpj_numeros, Peso2, 13)) IN
              IF ValorDigito(cnpj_numeros[14]) # digito2 THEN FALSE
              ELSE TRUE

----------------------------------------------------------------------------
(* Tax ids used as inputs *)

\* 11222333000181: a valid tax id
CnpjA == <<"1", "1", "2", "2", "2", "3", "3", "3", "0", "0", "0", "1", "8", "1">>

\* 11.222.333/0001-81 without the dash: the same tax id, formatted
CnpjAFormatado ==
    <<"1", "1", ".", "2", "2", "2", ".", "3", "3", "3", "/", "0", "0", "0", "1", "8", "1">>

\* 11444777000161: a second valid tax id
CnpjB == <<"1", "1", "4", "4", "4", "7", "7", "7", "0", "0", "0", "1", "6", "1">>

\* 11222333000182: CnpjA with its second check digit changed
CnpjX == <<"1", "1", "2", "2", "2", "3", "3", "3", "0", "0", "0", "1", "8", "2">>

CnpjZeros == [i \in 1..14 |-> "0"]

CnpjVazio == << >>

----------------------------------------------------------------------------
(* The parts of the state a specification does not exercise stay at rest *)

CnpjParado ==
    /\ entrada = CnpjVazio
    /\ resultado = FALSE
    /\ edicoes = 0

CorrelacaoParada ==
    /\ modulo = "processamento_dados"
    /\ df_operadoras = TabelaVazia
    /\ arquivo = [ext |-> ".csv", tabela |-> TabelaVazia]
    /\ itens = 0
    /\ fase = "processado"
    /\ df_despesas = NaoChamada
    /\ colunas_usadas = SemColunas
    /\ correlacao = NaoChamada
    /\ resultados = << >>
    /\ todos_resultados = << >>

ConsolidacaoParada ==
    /\ dados_processados = << >>
    /\ acrescimos = 0
    /\ consolidou = FALSE
    /\ arquivos = NenhumArquivo
    /\ excecao = ""
    /\ levantada = ""
    /\ dados_validos = << >>
    /\ ordem_escrita = << >>

JuncaoParada ==
    /\ arquivo_consolidado = [escrito |-> FALSE, colunas |-> {}, linhas |-> << >>]
    /\ juntou = FALSE
    /\ erro_juncao = ""
    /\ linhas_merge = << >>
    /\ arq_enriquecido = NaoEscrito
    /\ arq_inconsistencias = NaoEscrito
    /\ stats = << >>

----------------------------------------------------------------------------
(* Specification SpecCnpj: validar_cnpj applied to edited strings *)

EntradasIniciais == {CnpjA, CnpjZeros, CnpjVazio}

InitCnpj ==
    /\ entrada \in EntradasIniciais
    /\ resultado = validar_cnpj(entrada)
    /\ edicoes = 0
    /\ CorrelacaoParada
    /\ ConsolidacaoParada
    /\ JuncaoParada

Chamar(s) ==
    /\ edicoes < MaxEdicoes
    /\ edicoes' = edicoes + 1
    /\ entrada' = s
    /\ resultado' = validar_cnpj(s)
    /\ UNCHANGED foraDeCnpj

\* the caller passes the string with one character replaced by a digit
SubstituirDigito ==
    \E i \in 1..Len(entrada), c \in Digitos :
        /\ c # entrada[i]
        /\ Chamar([entrada EXCEPT ![i] = c])

\* the caller passes the string with a formatting character inserted
InserirPontuacao ==
    \E i \in 0..Len(entrada), c \in Pontuacao :
        Chamar(SubSeq(entrada, 1, i) \o <<c>> \o SubSeq(entrada, i + 1, Len(entrada)))

\* the caller passes the string with one character dropped
RemoverCaractere ==
    \E i \in 1..Len(entrada) :
        Chamar(SubSeq(entrada, 1, i - 1) \o SubSeq(entrada, i + 1, Len(entrada)))

\* the caller passes the string with a digit appended
AcrescentarDigito ==
    \E c \in Digitos : Chamar(Append(entrada, c))

NextCnpj ==
    \/ SubstituirDigito
    \/ InserirPontuacao
    \/ RemoverCaractere
    \/ AcrescentarDigito

SpecCnpj == InitCnpj /\ [][NextCnpj]_vars

----------------------------------------------------------------------------
(* C4 *)

\* the two check digits as the claim states them
DigitoEsperado(numeros, peso, n) ==
    LET r == SomaPonderada(numeros, peso, n) % 11 IN IF r < 2 THEN 0 ELSE 11 - r

CnpjBemFormado(s) ==
    LET d == SelectSeq(s, LAMBDA c : c \in Digitos) IN
    /\ Len(d) = 14
    /\ \E i \in 1..14 : d[i] # d[1]
    /\ ValorDigito(d[13]) = DigitoEsperado(d, Peso1, 12)
    /\ ValorDigito(d[14]) = DigitoEsperado(d, Peso2, 13)

\* C4: validar_cnpj returns TRUE exactly when, after removing the non-digit
\* characters, 14 digits remain, they are not 14 copies of one digit, and
\* digits 13 and 14 are the two modulo-11 check digits; any other input
\* (empty, too short, too long, a flipped check digit) gives FALSE, and the
\* result is always a boolean (the call never raises).
C4_ValidarCnpj ==
    /\ resultado \in BOOLEAN
    /\ resultado = CnpjBemFormado(entrada)

\* a true result on a formatted input: more than 14 characters, 14 of them digits
C4_Witness ==
    /\ edicoes = 2
    /\ resultado = TRUE
    /\ Len(entrada) > 14

----------------------------------------------------------------------------
(* ler_despesas *)

DescricaoAlvo == "Despesas com Eventos / Sinistros"

ExtensoesSuportadas == {".csv", ".txt", ".xlsx"}

\* str.replace(',', '.')
TrocarVirgula(s) == [i \in 1..Len(s) |-> IF s[i] = "," THEN "." ELSE s[i]]

RECURSIVE ValorInteiro(_)
\* the number written by a sequence of digits
ValorInteiro(ds) ==
    IF ds = << >> THEN 0
    ELSE ValorInteiro(SubSeq(ds, 1, Len(ds) - 1)) * 10 + ValorDigito(ds[Len(ds)])

\* pd.to_numeric(..., errors='coerce').round(2) of one cell, in cents: digits
\* with at most one decimal point give a number, anything else gives NaN
ParaNumerico(s) ==
    LET pontos == {i \in 1..Len(s) : s[i] = "."}
        p == IF pontos = {} THEN Len(s) + 1 ELSE CHOOSE i \in pontos : TRUE
        inteiro == SubSeq(s, 1, p - 1)
        fracao == SubSeq(s, p + 1, Len(s))
        d(k) == IF k <= Len(fracao) THEN ValorDigito(fracao[k]) ELSE 0
    IN IF \/ \E i \in 1..Len(s) : s[i] \notin Digitos \cup {"."}
          \/ Cardinality(pontos) > 1
          \/ Len(inteiro) + Len(fracao) = 0
       THEN SemValor
       ELSE Num(ValorInteiro(inteiro) * 100 + d(1) * 10 + d(2) + (IF d(3) >= 5 THEN 1 ELSE 0))

ConverterMonetario(celula) == ParaNumerico(TrocarVirgula(celula))

\* VL_SALDO_FINAL - VL_SALDO_INICIAL; NaN when either is NaN
Subtrair(a, b) == IF a = SemValor \/ b = SemValor THEN SemValor ELSE Num(a[1] - b[1])

\* df[df['DESCRICAO'] == 'Despesas com Eventos / Sinistros']
ManterAlvo(r) == r["DESCRICAO"] = DescricaoAlvo

\* df[df['DESCRICAO'] != 'Despesas com Eventos / Sinistros'] (main.py)
ExcluirAlvo(r) == r["DESCRICAO"] # DescricaoAlvo

ComDespesa(r) ==
    LET final == ConverterMonetario(r["VL_SALDO_FINAL"])
        inicial == ConverterMonetario(r["VL_SALDO_INICIAL"])
    IN [c \in DOMAIN r \cup {"DESPESA"} |->
            IF c = "VL_SALDO_FINAL" THEN final
            ELSE IF c = "VL_SALDO_INICIAL" THEN inicial
            ELSE IF c = "DESPESA" THEN Subtrair(final, inicial)
            ELSE r[c]]

\* the body the two definitions of ler_despesas share; manter_alvo tells
\* whether the filter keeps the target rows (==) or the other rows (!=)
LerDespesasCom(arq, manter_alvo) ==
    IF arq.ext \notin ExtensoesSuportadas THEN Excecao("ValueError")
    ELSE IF "DESCRICAO" \notin arq.tabela.colunas THEN Excecao("KeyError")
    ELSE LET df_filtered == SelectSeq(arq.tabela.linhas,
                                      LAMBDA r : IF manter_alvo THEN ManterAlvo(r)
                                                 ELSE ExcluirAlvo(r)) IN
         IF ~({"VL_SALDO_FINAL", "VL_SALDO_INICIAL"} \subseteq arq.tabela.colunas)
         THEN Excecao("KeyError")
         ELSE Retorno([colunas |-> arq.tabela.colunas \cup {"DESPESA"},
                       linhas |-> [i \in 1..Len(df_filtered) |-> ComDespesa(df_filtered[i])]])

\* mutant of ler_despesas: the extension is not looked at
LerSemVerificarExtensao(arq) == LerDespesasCom([arq EXCEPT !.ext = ".csv"], TRUE)

\* processamento_dados.ler_despesas
ler_despesas(arq) == LerDespesasCom(arq, TRUE)

\* main.ler_despesas
ler_despesas_main(arq) == LerDespesasCom(arq, FALSE)

----------------------------------------------------------------------------
(* correlacionar_dados *)

possiveis_nomes_despesas ==
    <<"REGISTRO_OPERADORA", "REG_ANS", "CD_REGISTRO_ANS", "REGISTRO_ANS", "CD_REG_ANS">>

possiveis_nomes_operadoras ==
    <<"REG_ANS", "REGISTRO_ANS", "CD_REGISTRO_ANS", "REGISTRO_OPERADORA">>

possiveis_nomes_cnpj == <<"CNPJ", "CD_CNPJ">>

possiveis_nomes_razao == <<"Razao_Social", "NM_RAZAO_SOCIAL">>

\* the last candidate that is a column
ResolverUltimo(candidatos, colunas) ==
    LET presentes == {i \in 1..Len(candidatos) : candidatos[i] \in colunas} IN
    IF presentes = {} THEN Nenhum
    ELSE candidatos[CHOOSE i \in presentes : \A j \in presentes : j <= i]

\* for nome in candidatos: if nome in df.columns: coluna = nome; break
ResolverColuna(candidatos, colunas) ==
    LET presentes == {i \in 1..Len(candidatos) : candidatos[i] \in colunas} IN
    IF presentes = {} THEN Nenhum
    ELSE candidatos[CHOOSE i \in presentes : \A j \in presentes : i <= j]

\* the rows of df_esq.merge(df_dir, left_on, right_on, how='inner'), reduced to
\* the four selected columns: left order, and for each left row its matches in
\* right order
JuncaoInterna(esq, dir, left_on, right_on, cnpj, razao, saida) ==
    LET pares(i) ==
            LET casam == SelectSeq(dir, LAMBDA o : o[right_on] = esq[i][left_on]) IN
            [k \in 1..Len(casam) |->
                [c \in SeqToSet(saida) |->
                    IF c = saida[1] THEN casam[k][right_on]
                    ELSE IF c = saida[2] THEN casam[k][cnpj]
                    ELSE IF c = saida[3] THEN casam[k][razao]
                    ELSE esq[i]["DESPESA"]]]
    IN Concatenar([i \in 1..Len(esq) |-> pares(i)])

\* the columns both sides of the merge carry, which the merge renames with the
\* suffixes _x and _y; a key named alike on both sides is kept as one column
ColunasRenomeadas(colunas_esq, left_on, right_on, cnpj, razao) ==
    (colunas_esq \cap {right_on, cnpj, razao}) \
        (IF left_on = right_on THEN {left_on} ELSE {})

\* the names correlacionar_dados resolves, in its order: the expense table's
\* registry id, then the registry's registry id, then tax id and legal name; a
\* failed resolution returns before the later ones are made
ColunasResolvidas(colunas_despesas, colunas_operadoras) ==
    LET coluna_reg_ans_despesas == ResolverColuna(possiveis_nomes_despesas, colunas_despesas)
        coluna_reg_ans_operadoras == ResolverColuna(possiveis_nomes_operadoras, colunas_operadoras)
    IN IF coluna_reg_ans_despesas = Nenhum THEN SemColunas
       ELSE IF coluna_reg_ans_operadoras = Nenhum
            THEN [SemColunas EXCEPT !.despesas = coluna_reg_ans_despesas]
       ELSE [despesas |-> coluna_reg_ans_despesas,
             operadoras |-> coluna_reg_ans_operadoras,
             cnpj |-> ResolverColuna(possiveis_nomes_cnpj, colunas_operadoras),
             razao |-> ResolverColuna(possiveis_nomes_razao, colunas_operadoras)]

\* what an unresolved column gives without the early returns: df[None] raises
SemRetornoAntecipado(c) == Excecao("KeyError")

\* return [] of the three failed-resolution branches
RetornoAntecipado(c) == Retorno(<< >>)

CorrelacionarCom(despesas, operadoras, saida) ==
    LET c == ColunasResolvidas(despesas.colunas, operadoras.colunas) IN
    IF c.despesas = Nenhum THEN RetornoAntecipado(c)
    ELSE IF c.operadoras = Nenhum THEN RetornoAntecipado(c)
    ELSE IF c.cnpj = Nenhum \/ c.razao = Nenhum THEN RetornoAntecipado(c)
    ELSE IF ColunasRenomeadas(despesas.colunas, c.despesas, c.operadoras, c.cnpj, c.razao) # {}
         THEN Excecao("KeyError")
    ELSE Retorno(JuncaoInterna(despesas.linhas, operadoras.linhas,
                               c.despesas, c.operadoras, c.cnpj, c.razao, saida))

\* processamento_dados.correlacionar_dados
correlacionar_dados(despesas, operadoras) ==
    CorrelacionarCom(despesas, operadoras, <<"reg_ans", "CNPJ", "RazaoSocial", "ValorDespesas">>)

\* main.correlacionar_dados
correlacionar_dados_main(despesas, operadoras) ==
    CorrelacionarCom(despesas, operadoras, <<"reg_ans", "cnpj", "razao_social", "despesa">>)

\* resultado['Trimestre'] = trimestre; resultado['Ano'] = ano, when given
\* (a parameter is <<n>>, or << >> for None)
Carimbar(r, trimestre, ano) ==
    LET novas == (IF trimestre # << >> THEN {"Trimestre"} ELSE {})
                 \cup (IF ano # << >> THEN {"Ano"} ELSE {})
    IN [c \in DOMAIN r \cup novas |->
            IF c = "Trimestre" /\ trimestre # << >> THEN trimestre[1]
            ELSE IF c = "Ano" /\ ano # << >> THEN ano[1]
            ELSE r[c]]

\* processamento_dados.correlacionar_despesas_com_operadoras: any exception of
\* ler_despesas or correlacionar_dados becomes an empty list
correlacionar_despesas_com_operadoras(lido, operadoras, trimestre, ano) ==
    IF ~lido.ok THEN << >>
    ELSE LET c == correlacionar_dados(lido.df, operadoras) IN
         IF ~c.ok THEN << >>
         ELSE [i \in 1..Len(c.df) |-> Carimbar(c.df[i], trimestre, ano)]

\* main.correlacionar_despesas_com_operadoras
correlacionar_despesas_com_operadoras_main(lido, operadoras) ==
    IF ~lido.ok THEN << >>
    ELSE LET c == correlacionar_dados_main(lido.df, operadoras) IN
         IF ~c.ok THEN << >> ELSE c.df

----------------------------------------------------------------------------
(* Specification SpecCorr: the files of one archive are extracted, read and  *)
(* correlated with the registry, and their records accumulated               *)

RegistrosANS == {111, 222}

OutroRegistro(reg) == IF reg = 111 THEN 222 ELSE 111

RazoesSociais == {"Alpha", "Beta", "Gamma"}

\* registry tables as loaded from the registry file
Op(colunas, linhas) == [colunas |-> colunas, linhas |-> linhas]

OperadorasPadrao ==
    Op({"REG_ANS", "CNPJ", "Razao_Social"},
       << [REG_ANS |-> 111, CNPJ |-> CnpjA, Razao_Social |-> "Alpha"],
          [REG_ANS |-> 111, CNPJ |-> CnpjA, Razao_Social |-> "Beta"],
          [REG_ANS |-> 222, CNPJ |-> CnpjX, Razao_Social |-> "Gamma"] >>)

OperadorasDoisRegistros ==
    Op({"REGISTRO_OPERADORA", "REG_ANS", "CNPJ", "Razao_Social"},
       << [REGISTRO_OPERADORA |-> 111, REG_ANS |-> 222, CNPJ |-> CnpjA, Razao_Social |-> "Alpha"],
          [REGISTRO_OPERADORA |-> 222, REG_ANS |-> 111, CNPJ |-> CnpjB, Razao_Social |-> "Beta"] >>)

OperadorasNomesAlternativos ==
    Op({"REGISTRO_OPERADORA", "CD_CNPJ", "NM_RAZAO_SOCIAL"},
       << [REGISTRO_OPERADORA |-> 111, CD_CNPJ |-> CnpjA, NM_RAZAO_SOCIAL |-> "Alpha"],
          [REGISTRO_OPERADORA |-> 111, CD_CNPJ |-> CnpjB, NM_RAZAO_SOCIAL |-> "Alpha"],
          [REGISTRO_OPERADORA |-> 111, CD_CNPJ |-> CnpjX, NM_RAZAO_SOCIAL |-> "Beta"] >>)

OperadorasSemRegistro ==
    Op({"CD_OPERADORA", "CNPJ", "Razao_Social"},
       << [CD_OPERADORA |-> 111, CNPJ |-> CnpjA, Razao_Social |-> "Alpha"] >>)

OperadorasSemCnpj ==
    Op({"REG_ANS", "Razao_Social"},
       << [REG_ANS |-> 111, Razao_Social |-> "Alpha"] >>)

OperadorasSemRazao ==
    Op({"REG_ANS", "CNPJ"},
       << [REG_ANS |-> 111, CNPJ |-> CnpjA] >>)

TabelasOperadoras ==
    {OperadorasPadrao, OperadorasDoisRegistros, OperadorasNomesAlternativos,
     OperadorasSemRegistro, OperadorasSemCnpj, OperadorasSemRazao}

\* the kinds of file an archive holds: extension and column names
ColunasValores == {"DESCRICAO", "VL_SALDO_FINAL", "VL_SALDO_INICIAL"}

TiposDeArquivo ==
    { [ext |-> ".csv",  colunas |-> {"REGISTRO_OPERADORA"} \cup ColunasValores],
      [ext |-> ".txt",  colunas |-> {"REG_ANS"} \cup ColunasValores],
      [ext |-> ".xlsx", colunas |-> {"REG_ANS", "REGISTRO_OPERADORA"} \cup ColunasValores],
      [ext |-> ".csv",  colunas |-> {"CD_OPERADORA"} \cup ColunasValores],
      [ext |-> ".txt",  colunas |-> {"REGISTRO_OPERADORA", "VL_SALDO_FINAL", "VL_SALDO_INICIAL"}],
      [ext |-> ".pdf",  colunas |-> {"REGISTRO_OPERADORA"} \cup ColunasValores] }

Descricoes == {DescricaoAlvo, "Outras Despesas"}

\* cells of VL_SALDO_FINAL: "2,5" and "3"; VL_SALDO_INICIAL is "1"
CelulasSaldoFinal == { <<"2", ",", "5">>, <<"3">> }

CelulaSaldoInicial == <<"1">>

\* a row of an expense file with the given columns
LinhaDespesa(colunas, reg, desc, final) ==
    [c \in colunas |->
        IF c = "REG_ANS" /\ "REGISTRO_OPERADORA" \in colunas THEN OutroRegistro(reg)
        ELSE IF c \in {"REGISTRO_OPERADORA", "REG_ANS", "CD_OPERADORA"} THEN reg
        ELSE IF c = "DESCRICAO" THEN desc
        ELSE IF c = "VL_SALDO_FINAL" THEN final
        ELSE CelulaSaldoInicial]

ArquivoVazio(tipo) ==
    [ext |-> tipo.ext, tabela |-> [colunas |-> tipo.colunas, linhas |-> << >>]]

InitCorr ==
    /\ modulo \in {"processamento_dados", "main"}
    /\ df_operadoras \in TabelasOperadoras
    /\ \E tipo \in TiposDeArquivo : arquivo = ArquivoVazio(tipo)
    /\ itens = 1
    /\ fase = "extraido"
    /\ df_despesas = NaoChamada
    /\ colunas_usadas = SemColunas
    /\ correlacao = NaoChamada
    /\ resultados = << >>
    /\ todos_resultados = << >>
    /\ CnpjParado
    /\ ConsolidacaoParada
    /\ JuncaoParada

\* z.extractall: one more row of the file the loop is at
ExtrairLinha ==
    /\ fase = "extraido"
    /\ itens < MaxItensZip
    /\ \E reg \in RegistrosANS, desc \in Descricoes, final \in CelulasSaldoFinal :
         arquivo' = [arquivo EXCEPT !.tabela.linhas =
                        Append(@, LinhaDespesa(arquivo.tabela.colunas, reg, desc, final))]
    /\ itens' = itens + 1
    /\ UNCHANGED <<modulo, df_operadoras, fase, df_despesas, colunas_usadas, correlacao,
                   resultados, todos_resultados>>
    /\ UNCHANGED foraDeCorr

\* os.walk: the loop reaches the next file of the archive
ProximoArquivo ==
    /\ fase = "processado"
    /\ itens < MaxItensZip
    /\ \E tipo \in TiposDeArquivo : arquivo' = ArquivoVazio(tipo)
    /\ itens' = itens + 1
    /\ fase' = "extraido"
    /\ UNCHANGED <<modulo, df_operadoras, df_despesas, colunas_usadas, correlacao,
                   resultados, todos_resultados>>
    /\ UNCHANGED foraDeCorr

\* a call of correlacionar_despesas_com_operadoras on the file, its result
\* appended to the accumulated records
ChamarCorrelacao ==
    /\ fase = "extraido"
    /\ \E lido \in {IF modulo = "main" THEN ler_despesas_main(arquivo)
                    ELSE ler_despesas(arquivo)} :
       \E res \in {IF modulo = "main"
                   THEN correlacionar_despesas_com_operadoras_main(lido, df_operadoras)
                   ELSE correlacionar_despesas_com_operadoras(lido, df_operadoras,
                                                              << >>, << >>)} :
          /\ df_despesas' = lido
          /\ correlacao' = IF ~lido.ok THEN NaoChamada
                           ELSE IF modulo = "main"
                                THEN correlacionar_dados_main(lido.df, df_operadoras)
                                ELSE correlacionar_dados(lido.df, df_operadoras)
          /\ colunas_usadas' = IF lido.ok
                               THEN ColunasResolvidas(lido.df.colunas, df_operadoras.colunas)
                               ELSE SemColunas
          /\ resultados' = res
          /\ todos_resultados' = todos_resultados \o res
    /\ fase' = "processado"
    /\ UNCHANGED <<modulo, df_operadoras, arquivo, itens>>
    /\ UNCHANGED foraDeCorr

\* the body of the loop of extrair_e_processar_zip (baixar_e_extrair_zip in
\* main.py) for a file with a supported extension
ProcessarArquivo ==
    /\ arquivo.ext \in ExtensoesSuportadas
    /\ ChamarCorrelacao

\* the loop passes over a file with any other extension
IgnorarArquivo ==
    /\ fase = "extraido"
    /\ arquivo.ext \notin ExtensoesSuportadas
    /\ fase' = "processado"
    /\ df_despesas' = NaoChamada
    /\ colunas_usadas' = SemColunas
    /\ correlacao' = NaoChamada
    /\ resultados' = << >>
    /\ UNCHANGED <<modulo, df_operadoras, arquivo, itens, todos_resultados>>
    /\ UNCHANGED foraDeCorr

NextCorr ==
    \/ ExtrairLinha
    \/ ProximoArquivo
    \/ ProcessarArquivo
    \/ IgnorarArquivo

SpecCorr == InitCorr /\ [][NextCorr]_vars

----------------------------------------------------------------------------
(* C7 - C10: extraction and correlation *)

\* the first name of candidatos that is a column, None when there is none
PrimeiroCandidato(candidatos, colunas) ==
    IF \A i \in 1..Len(candidatos) : candidatos[i] \notin colunas THEN Nenhum
    ELSE CHOOSE c \in SeqToSet(candidatos) \cap colunas :
            \E i \in 1..Len(candidatos) :
                /\ candidatos[i] = c
                /\ \A j \in 1..(i - 1) : candidatos[j] \notin colunas

\* the four logical columns of a call of correlacionar_dados
ColunaDespesas == PrimeiroCandidato(possiveis_nomes_despesas, df_despesas.df.colunas)

ColunaOperadoras == PrimeiroCandidato(possiveis_nomes_operadoras, df_operadoras.colunas)

ColunaCnpj == PrimeiroCandidato(<<"CNPJ", "CD_CNPJ">>, df_operadoras.colunas)

ColunaRazao == PrimeiroCandidato(<<"Razao_Social", "NM_RAZAO_SOCIAL">>, df_operadoras.colunas)

TodasResolvidas ==
    /\ ColunaDespesas # Nenhum
    /\ ColunaOperadoras # Nenhum
    /\ ColunaCnpj # Nenhum
    /\ ColunaRazao # Nenhum

\* correlacionar_dados was called for arquivo
Correlacionou == fase = "processado" /\ df_despesas.ok

\* the pairs (expense row, registry row) with the same registry id
ParesCasados ==
    {p \in (1..Len(df_despesas.df.linhas)) \X (1..Len(df_operadoras.linhas)) :
        df_despesas.df.linhas[p[1]][ColunaDespesas] = df_operadoras.linhas[p[2]][ColunaOperadoras]}

RegistroDoPar(p) ==
    [reg_ans |-> df_operadoras.linhas[p[2]][ColunaOperadoras],
     CNPJ |-> df_operadoras.linhas[p[2]][ColunaCnpj],
     RazaoSocial |-> df_operadoras.linhas[p[2]][ColunaRazao],
     ValorDespesas |-> df_despesas.df.linhas[p[1]]["DESPESA"]]

FanOutExato ==
    /\ correlacao.ok
    /\ Len(correlacao.df) = Cardinality(ParesCasados)
    /\ \A p \in ParesCasados :
          Cardinality({n \in 1..Len(correlacao.df) : correlacao.df[n] = RegistroDoPar(p)})
            = Cardinality({q \in ParesCasados : RegistroDoPar(q) = RegistroDoPar(p)})

\* C7: correlacionar_dados returns one record per pair of an expense row and a
\* registry row with the same registry id (an expense row with m matching
\* registry rows gives exactly m records, one with no match gives none), each
\* carrying the registry row's tax id and legal name and the expense row's value.
C7_JuncaoComFanOut ==
    (Correlacionou /\ modulo = "processamento_dados" /\ TodasResolvidas) => FanOutExato

\* the expense table has no column named like one of the three registry columns
\* of the merge, other than a registry id column of the same name on both sides
SemColunasEmComum ==
    (df_despesas.df.colunas \cap {ColunaOperadoras, ColunaCnpj, ColunaRazao})
        \subseteq (IF ColunaDespesas = ColunaOperadoras THEN {ColunaDespesas} ELSE {})

\* C7 holds of every call whose two tables share no such column name
C7_SemColunasEmComum ==
    (Correlacionou /\ modulo = "processamento_dados" /\ TodasResolvidas /\ SemColunasEmComum)
        => FanOutExato

\* an expense row that matches two registry rows gave two records
C7_FanOutAlcancado ==
    /\ Correlacionou /\ modulo = "processamento_dados" /\ TodasResolvidas
    /\ correlacao.ok
    /\ \E i \in 1..Len(df_despesas.df.linhas) :
          Cardinality({p \in ParesCasados : p[1] = i}) = 2
    /\ Len(correlacao.df) >= 2

C9_NaoResolvidaListaVazia ==
    [][(/\ fase = "extraido"
        /\ fase' = "processado"
        /\ df_despesas'.ok
        /\ \/ PrimeiroCandidato(possiveis_nomes_despesas, df_despesas'.df.colunas) = Nenhum
           \/ ColunaOperadoras = Nenhum
           \/ ColunaCnpj = Nenhum
           \/ ColunaRazao = Nenhum)
       => (/\ correlacao' = Retorno(<< >>)
           /\ resultados' = << >>
           /\ todos_resultados' = todos_resultados)]_vars

\* a file whose target rows have registry ids of the registry, read after a file
\* that gave records, contributed nothing because a column was not resolved
C9_Witness ==
    /\ Correlacionou
    /\ ~TodasResolvidas
    /\ df_despesas.df.linhas # << >>
    /\ df_operadoras.linhas # << >>
    /\ resultados = << >>
    /\ todos_resultados # << >>

\* the columns of a row other than the two monetary ones, which are converted
SemSaldos(r) == [c \in DOMAIN r \ {"VL_SALDO_FINAL", "VL_SALDO_INICIAL", "DESPESA"} |-> r[c]]

LinhasAlvo == SelectSeq(arquivo.tabela.linhas, LAMBDA r : r["DESCRICAO"] = DescricaoAlvo)

\* C10: ler_despesas returns exactly the rows of the file whose DESCRICAO is
\* 'Despesas com Eventos / Sinistros', in both modules that define it.
C10_SomenteLinhasAlvo ==
    Correlacionou =>
        /\ Len(df_despesas.df.linhas) = Len(LinhasAlvo)
        /\ \A i \in 1..Len(df_despesas.df.linhas) :
              /\ df_despesas.df.linhas[i]["DESCRICAO"] = DescricaoAlvo
              /\ SemSaldos(df_despesas.df.linhas[i]) = SemSaldos(LinhasAlvo[i])

\* C10 holds of processamento_dados.ler_despesas
C10_ProcessamentoDados ==
    modulo = "processamento_dados" => C10_SomenteLinhasAlvo

----------------------------------------------------------------------------
(* filtrar_cnpjs_invalidos, consolidar_dados_em_csv, salvar_cnpjs_duplicados *)

\* the column names of pd.DataFrame(registros): the union of the keys
Colunas(registros) == UNION {DOMAIN registros[i] : i \in 1..Len(registros)}

RECURSIVE PrimeirasOcorrencias(_, _)
PrimeirasOcorrencias(s, vistos) ==
    IF s = << >> THEN << >>
    ELSE IF Head(s) \in vistos THEN PrimeirasOcorrencias(Tail(s), vistos)
    ELSE <<Head(s)>> \o PrimeirasOcorrencias(Tail(s), vistos \cup {Head(s)})

\* DataFrame.drop_duplicates and Series.unique: the first occurrence of each
\* value, in order of appearance (a missing value is a value like any other)
\* the rows kept as they are, repeated or not
ManterDuplicatas(s) == s

drop_duplicates(s) == PrimeirasOcorrencias(s, {})

\* the row the invalid report keeps of a record
EntradaInvalida(r) == [CNPJ |-> r.CNPJ, REG_ANS |-> r.reg_ans, RazaoSocial |-> r.RazaoSocial]

\* mutant of CnpjAceito: every tax id passes
CnpjAceitoSempre(r) == TRUE

CnpjAceito(r) == validar_cnpj(r.CNPJ)

CnpjRecusado(r) == ~CnpjAceito(r)

\* the list returned and the report written
filtrar_cnpjs_invalidos(dados) ==
    LET recusados == SelectSeq(dados, CnpjRecusado)
        invalidos == [i \in 1..Len(recusados) |-> EntradaInvalida(recusados[i])]
    IN  [validos |-> SelectSeq(dados, CnpjAceito),
         arquivo |-> IF invalidos # << >> THEN Escrito(drop_duplicates(invalidos))
                     ELSE NaoEscrito]

\* the order of two strings of digits (Python compares strings character by character)
RECURSIVE MenorTexto(_, _)
MenorTexto(a, b) ==
    IF b = << >> THEN FALSE
    ELSE IF a = << >> THEN TRUE
    ELSE IF a[1] # b[1] THEN ValorDigito(a[1]) < ValorDigito(b[1])
    ELSE MenorTexto(Tail(a), Tail(b))

\* the alphabetical order of the legal names of the model
OrdemRazao(nome) ==
    CASE nome = "Alpha" -> 1
      [] nome = "Beta" -> 2
      [] nome = "Gamma" -> 3
      [] OTHER -> 4

\* the order in which groupby(sort=True) lists its keys
MenorChave(a, b) ==
    IF a[1] # b[1] THEN MenorTexto(a[1], b[1])
    ELSE IF a[2] # b[2] THEN OrdemRazao(a[2]) < OrdemRazao(b[2])
    ELSE IF a[3] # b[3] THEN a[3] < b[3]
    ELSE a[4] < b[4]

\* the elements of S in the order of the relation menor, a set of pairs
Ordenar(S, menor) ==
    [i \in 1..Cardinality(S) |->
        CHOOSE x \in S : Cardinality({y \in S : <<y, x>> \in menor}) = i - 1]

OrdenarChaves(S) == Ordenar(S, {p \in S \X S : MenorChave(p[1], p[2])})

OrdenarCnpjs(S) == Ordenar(S, {p \in S \X S : MenorTexto(p[1], p[2])})

Presente(v) == v # SemValor

RECURSIVE Somar(_)
Somar(numeros) == IF numeros = << >> THEN 0 ELSE Head(numeros)[1] + Somar(Tail(numeros))

\* sum of a group: missing values are skipped, the sum of none is 0
Soma(valores) == Somar(SelectSeq(valores, Presente))

\* round(2) of numerador / denominador cents, denominador > 0
Arredondar(numerador, denominador) == (2 * numerador + denominador) \div (2 * denominador)

\* the mean with every missing value taken as a zero expense
MediaComZeros(valores) == Num(Arredondar(Soma(valores), Len(valores)))

\* mean of a group: missing values are skipped, the mean of none is missing
Media(valores) ==
    LET presentes == SelectSeq(valores, Presente)
    IN  IF presentes = << >> THEN SemValor
        ELSE Num(Arredondar(Somar(presentes), Len(presentes)))

RECURSIVE SomarInteiros(_)
SomarInteiros(xs) == IF xs = << >> THEN 0 ELSE Head(xs) + SomarInteiros(Tail(xs))

Quadrados(xs) == [i \in 1..Len(xs) |-> xs[i] * xs[i]]

\* the integer nearest to the square root of p / q (p >= 0, q > 0): the k
\* with (2k - 1)^2 q <= 4p < (2k + 1)^2 q, searched between baixo and alto
RECURSIVE BuscarRaiz(_, _, _, _)
BuscarRaiz(p, q, baixo, alto) ==
    IF baixo = alto THEN baixo
    ELSE LET meio == (baixo + alto + 1) \div 2
         IN  IF (2 * meio - 1) * (2 * meio - 1) * q <= 4 * p
             THEN BuscarRaiz(p, q, meio, alto)
             ELSE BuscarRaiz(p, q, baixo, meio - 1)

RECURSIVE AcimaDaRaiz(_, _, _)
AcimaDaRaiz(p, q, k) ==
    IF (2 * k - 1) * (2 * k - 1) * q > 4 * p THEN k ELSE AcimaDaRaiz(p, q, 2 * k)

RaizArredondada(p, q) == BuscarRaiz(p, q, 0, AcimaDaRaiz(p, q, 1))

\* Series.std (sample standard deviation, ddof = 1) then round(2): missing
\* for fewer than two values
DesvioPadrao(xs) ==
    LET n == Len(xs)
    IN  IF n < 2 THEN SemValor
        ELSE Num(RaizArredondada(n * SomarInteiros(Quadrados(xs))
                                    - SomarInteiros(xs) * SomarInteiros(xs),
                                 n * (n - 1)))

Chave(r) == <<r.CNPJ, r.RazaoSocial, r.Trimestre, r.Ano>>

\* groupby leaves out the rows whose key holds a missing value (dropna=True)
ChaveCompleta(r) == r.RazaoSocial # NaN

\* the row agg(['sum', 'mean']) computes for the group of key k
LinhaConsolidada(k, grupo) ==
    LET valores == [i \in 1..Len(grupo) |-> grupo[i].ValorDespesas]
    IN  [CNPJ |-> k[1], RazaoSocial |-> k[2], Trimestre |-> k[3], Ano |-> k[4],
         ValorDespesas |-> Soma(valores), MediaTrimestral |-> Media(valores)]

\* mutant of Agregar: one row per record, nothing is grouped
AgregarSemAgrupar(validos) ==
    LET linhas == SelectSeq(validos, ChaveCompleta)
    IN  [i \in 1..Len(linhas) |-> LinhaConsolidada(Chave(linhas[i]), <<linhas[i]>>)]

\* the groups listed in the order in which their keys first occur
AgregarNaOrdemDeEntrada(validos) ==
    LET linhas == SelectSeq(validos, ChaveCompleta)
        chaves == drop_duplicates([i \in 1..Len(linhas) |-> Chave(linhas[i])])
        Grupo(k) == SelectSeq(linhas, LAMBDA r : Chave(r) = k)
    IN  [i \in 1..Len(chaves) |-> LinhaConsolidada(chaves[i], Grupo(chaves[i]))]

\* groupby(['CNPJ', 'RazaoSocial', 'Trimestre', 'Ano']).agg(sum, mean), rounded
Agregar(validos) ==
    LET linhas == SelectSeq(validos, ChaveCompleta)
        chaves == OrdenarChaves({Chave(linhas[i]) : i \in 1..Len(linhas)})
        Grupo(k) == SelectSeq(linhas, LAMBDA r : Chave(r) = k)
    IN  [i \in 1..Len(chaves) |-> LinhaConsolidada(chaves[i], Grupo(chaves[i]))]

MenorPar(a, b) ==
    IF a[1] # b[1] THEN MenorTexto(a[1], b[1])
    ELSE OrdemRazao(a[2]) < OrdemRazao(b[2])

OrdenarPares(S) == Ordenar(S, {p \in S \X S : MenorPar(p[1], p[2])})

\* groupby(['CNPJ', 'RazaoSocial']).agg(std) over the consolidated rows
Desvios(consolidado) ==
    LET pares == OrdenarPares({<<consolidado[i].CNPJ, consolidado[i].RazaoSocial>> :
                                  i \in 1..Len(consolidado)})
        Grupo(p) == SelectSeq(consolidado, LAMBDA r : <<r.CNPJ, r.RazaoSocial>> = p)
        Totais(p) == [i \in 1..Len(Grupo(p)) |-> Grupo(p)[i].ValorDespesas]
    IN  [i \in 1..Len(pares) |->
            [CNPJ |-> pares[i][1], RazaoSocial |-> pares[i][2],
             DesvioPadrao |-> DesvioPadrao(Totais(pares[i]))]]

\* Series.nunique: the distinct names of the records of a tax id, missing left out
NomesDistintos(dados, cnpj) ==
    {dados[i].RazaoSocial : i \in {j \in 1..Len(dados) : dados[j].CNPJ = cnpj}} \ {NaN}

\* the rows of the conflict report for one tax id: one per pair i < j of
\* razoes, with the period and expenses read at the positions i and j of
\* the group's rows
LinhasDuplicados(cnpj, grupo) ==
    LET razoes == drop_duplicates([i \in 1..Len(grupo) |-> grupo[i].RazaoSocial])
        n == Len(razoes)
    IN  Concatenar([i \in 1..n |->
            [d \in 1..(n - i) |->
                [CNPJ |-> cnpj, RazaoSocial1 |-> razoes[i], RazaoSocial2 |-> razoes[i + d],
                 Trimestre |-> grupo[i].Trimestre, Ano |-> grupo[i].Ano,
                 ValorDespesas1 |-> grupo[i].ValorDespesas,
                 ValorDespesas2 |-> grupo[i + d].ValorDespesas]]])

\* the conflict report; any exception is caught and nothing is written
salvar_cnpjs_duplicados(dados) ==
    IF ~({"CNPJ", "RazaoSocial"} \subseteq Colunas(dados)) THEN NaoEscrito
    ELSE LET duplicados ==
                 SelectSeq(dados, LAMBDA r : Cardinality(NomesDistintos(dados, r.CNPJ)) > 1)
             cnpjs == OrdenarCnpjs({duplicados[i].CNPJ : i \in 1..Len(duplicados)})
             Grupo(c) == SelectSeq(duplicados, LAMBDA r : r.CNPJ = c)
         IN  IF duplicados = << >> THEN NaoEscrito
             ELSE IF ~({"ValorDespesas", "Ano", "Trimestre"} \subseteq Colunas(dados))
             THEN NaoEscrito
             ELSE Escrito(Concatenar([i \in 1..Len(cnpjs) |->
                                         LinhasDuplicados(cnpjs[i], Grupo(cnpjs[i]))]))

NomesDosArquivos == <<"invalidos", "desvio", "duplicados", "consolidado">>

\* the files, in the order the code writes them: the invalid report inside
\* filtrar_cnpjs_invalidos, to_csv of the deviations, salvar_cnpjs_duplicados,
\* to_csv of the consolidated table
OrdemDeEscrita(arqs) == SelectSeq(NomesDosArquivos, LAMBDA n : arqs[n].escrito)

\* what leaves consolidar_dados_em_csv after one of its except clauses caught
\* the exception e: both clauses print and end without a raise
AposCaptura(e) == ""

\* the files consolidar_dados_em_csv leaves, the exception it caught, the
\* exception it raised and the list filtrar_cnpjs_invalidos returned to it;
\* falha names the file whose to_csv raises OSError, "nenhuma" when all succeed
ConsolidarComFalha(dados, falha) ==
    LET filtrado == filtrar_cnpjs_invalidos(dados)
        validos == filtrado.validos
        somente_invalidos == [NenhumArquivo EXCEPT !.invalidos = filtrado.arquivo]
        capturada(arqs, lista) ==
            [arquivos |-> arqs, excecao |-> "OSError", levantada |-> AposCaptura("OSError"),
             dados_validos |-> lista]
    IN  IF falha = "invalidos" /\ filtrado.arquivo.escrito
        THEN capturada(NenhumArquivo, << >>)
        ELSE IF validos = << >>
        THEN [arquivos |-> somente_invalidos, excecao |-> "", levantada |-> "",
              dados_validos |-> validos]
        ELSE IF ~({"CNPJ", "RazaoSocial", "Trimestre", "Ano"} \subseteq Colunas(validos))
        THEN [arquivos |-> somente_invalidos, excecao |-> "KeyError",
              levantada |-> AposCaptura("KeyError"), dados_validos |-> validos]
        ELSE LET df_consolidado == Agregar(validos)
                 \* salvar_cnpjs_duplicados catches the exception of its own to_csv
                 duplicados == IF falha = "duplicados" THEN NaoEscrito
                               ELSE salvar_cnpjs_duplicados(dados)
                 ate_desvio == [somente_invalidos EXCEPT
                                   !.desvio = Escrito(Desvios(df_consolidado))]
                 ate_duplicados == [ate_desvio EXCEPT !.duplicados = duplicados]
             IN  IF falha = "desvio" THEN capturada(somente_invalidos, validos)
                 ELSE IF falha = "consolidado" THEN capturada(ate_duplicados, validos)
                 ELSE [arquivos |-> [ate_duplicados EXCEPT
                                        !.consolidado = Escrito(df_consolidado)],
                       excecao |-> "", levantada |-> "", dados_validos |-> validos]

\* the call in which every write succeeds
consolidar_dados_em_csv(dados) == ConsolidarComFalha(dados, "nenhuma")

----------------------------------------------------------------------------
(* Specification SpecCons: consolidar_dados_em_csv over lists of records *)

\* registry number, tax id and legal name of the correlated records: two valid
\* tax ids (the first under three names and without a name) and an invalid one
\* under two names
OperadorasCorrelacionadas ==
    { <<111, CnpjA, "Alpha">>, <<111, CnpjA, "Beta">>, <<111, CnpjA, "Gamma">>,
      <<111, CnpjA, NaN>>, <<333, CnpjB, "Alpha">>,
      <<222, CnpjX, "Alpha">>, <<222, CnpjX, "Beta">> }

\* expenses in cents, multiples of 4 so that no mean of up to seven of them
\* falls on half a cent (where round(2) depends on the binary representation)
ValoresDespesas == {Num(400), Num(200), SemValor}

\* quarter and year
Periodos == { <<1, 2024>>, <<4, 2023>> }

\* a record as correlacionar_dados returns it
Correlacionado(op, valor) ==
    [reg_ans |-> op[1], CNPJ |-> op[2], RazaoSocial |-> op[3], ValorDespesas |-> valor]

\* the record the caller stamps with the period, or leaves without it
RegistroProcessado(op, valor, periodo, carimba) ==
    IF carimba THEN Carimbar(Correlacionado(op, valor), <<periodo[1]>>, <<periodo[2]>>)
    ELSE Carimbar(Correlacionado(op, valor), << >>, << >>)

ListasIniciais(carimba) ==
    LET r1 == RegistroProcessado(<<111, CnpjA, "Alpha">>, Num(400), <<1, 2024>>, carimba)
        r2 == RegistroProcessado(<<111, CnpjA, "Alpha">>, Num(200), <<1, 2024>>, carimba)
    IN  { << >>, <<r1, r2>> }

InitCons ==
    /\ \E carimba \in BOOLEAN : dados_processados \in ListasIniciais(carimba)
    /\ acrescimos = 0
    /\ consolidou = FALSE
    /\ arquivos = NenhumArquivo
    /\ excecao = ""
    /\ levantada = ""
    /\ dados_validos = << >>
    /\ ordem_escrita = << >>
    /\ CnpjParado
    /\ CorrelacaoParada
    /\ JuncaoParada

\* the caller stamps every record of a list alike
Carimbados(dados) == "Trimestre" \in DOMAIN dados[1]

\* one more correlated record reaches the list
AcrescentarRegistro ==
    /\ ~consolidou
    /\ acrescimos < MaxAcrescimos
    /\ \E op \in OperadorasCorrelacionadas, valor \in ValoresDespesas,
          periodo \in Periodos, carimba \in BOOLEAN :
         /\ dados_processados # << >> => carimba = Carimbados(dados_processados)
         /\ ~carimba => periodo = <<1, 2024>>
         /\ dados_processados' =
                Append(dados_processados, RegistroProcessado(op, valor, periodo, carimba))
    /\ acrescimos' = acrescimos + 1
    /\ UNCHANGED <<consolidou, arquivos, excecao, levantada, dados_validos, ordem_escrita>>
    /\ UNCHANGED foraDeCons

\* consolidar_dados_em_csv(dados_processados, caminho_saida)
Consolidar ==
    /\ ~consolidou
    /\ \E c \in {consolidar_dados_em_csv(dados_processados)} :
           /\ arquivos' = c.arquivos
           /\ excecao' = c.excecao
           /\ levantada' = c.levantada
           /\ dados_validos' = c.dados_validos
           /\ ordem_escrita' = OrdemDeEscrita(c.arquivos)
    /\ consolidou' = TRUE
    /\ UNCHANGED <<dados_processados, acrescimos>>
    /\ UNCHANGED foraDeCons

NextCons ==
    \/ AcrescentarRegistro
    \/ Consolidar

SpecCons == InitCons /\ [][NextCons]_vars

----------------------------------------------------------------------------
(* Claims C1, C2, C5, C6 about the outputs of consolidar_dados_em_csv *)

Consolidado == arquivos.consolidado.linhas

SaiuConsolidado == consolidou /\ arquivos.consolidado.escrito

\* the records of the input whose tax id is well formed
RegistrosValidos == SelectSeq(dados_processados, LAMBDA r : CnpjBemFormado(r.CNPJ))

\* C1: in the consolidated output no two rows share the same
\* (CNPJ, RazaoSocial, Trimestre, Ano) key.
C1_ChavesUnicas ==
    SaiuConsolidado =>
        \A i, j \in 1..Len(Consolidado) :
            Chave(Consolidado[i]) = Chave(Consolidado[j]) => i = j

\* several records of one key, and records of other keys, were consolidated
C1_Witness ==
    /\ SaiuConsolidado
    /\ Len(Consolidado) >= 2
    /\ \E i, j \in 1..Len(RegistrosValidos) :
          /\ i # j
          /\ RegistrosValidos[i].RazaoSocial # NaN
          /\ Chave(RegistrosValidos[i]) = Chave(RegistrosValidos[j])

\* the expenses present in the valid records of key k
DespesasDaChave(k) ==
    LET doGrupo == SelectSeq(RegistrosValidos, LAMBDA r : Chave(r) = k)
    IN  SelectSeq([i \in 1..Len(doGrupo) |-> doGrupo[i].ValorDespesas], Presente)

\* the row states the sum of the group's expenses and, to the cent, that sum
\* divided by their number
SomaEMediaDoGrupo(linha) ==
    LET despesas == DespesasDaChave(Chave(linha))
        n == Len(despesas)
        total == Somar(despesas)
    IN  /\ linha.ValorDespesas = total
        /\ n > 0 =>
             /\ linha.MediaTrimestral # SemValor
             /\ 2 * (linha.MediaTrimestral[1] * n - total) <= n
             /\ 2 * (total - linha.MediaTrimestral[1] * n) <= n

NumeroDeLinhasDe(r) ==
    Cardinality({i \in 1..Len(Consolidado) : Chave(Consolidado[i]) = Chave(r)})

\* C2: each consolidated row carries the sum of the expenses of exactly the
\* valid records of its group and that sum divided by their number (100 and
\* 50 give 150.00 and 75.00), and every valid record contributes to exactly
\* one row.  Read with two-decimal rounding and with missing expenses left
\* out of sum and count.
C2_SomaEMedia ==
    SaiuConsolidado =>
        /\ \A i \in 1..Len(Consolidado) : SomaEMediaDoGrupo(Consolidado[i])
        /\ \A j \in 1..Len(RegistrosValidos) : NumeroDeLinhasDe(RegistrosValidos[j]) = 1

\* the same, for the valid records that carry a legal name
C2_ComRazaoSocial ==
    SaiuConsolidado =>
        /\ \A i \in 1..Len(Consolidado) : SomaEMediaDoGrupo(Consolidado[i])
        /\ \A j \in 1..Len(RegistrosValidos) :
              RegistrosValidos[j].RazaoSocial # NaN =>
                  NumeroDeLinhasDe(RegistrosValidos[j]) = 1

\* the example of the claim, in units of 4 cents: 400 and 200 give 600 and 300
C2_ExemploAlcancado ==
    /\ SaiuConsolidado
    /\ \E i \in 1..Len(Consolidado) :
          /\ DespesasDaChave(Chave(Consolidado[i])) = <<Num(400), Num(200)>>
          /\ Consolidado[i].ValorDespesas = 600
          /\ Consolidado[i].MediaTrimestral = Num(300)

\* C5: no row of the consolidated output and no row of the standard-deviation
\* report has the CNPJ of a record that fails validation, and the sums and
\* means are those of the valid records alone.
C5_InvalidosForaDasSaidas ==
    consolidou =>
        /\ \A j \in 1..Len(dados_processados) :
              ~CnpjBemFormado(dados_processados[j].CNPJ) =>
                  /\ \A i \in 1..Len(Consolidado) :
                        Consolidado[i].CNPJ # dados_processados[j].CNPJ
                  /\ \A i \in 1..Len(arquivos.desvio.linhas) :
                        arquivos.desvio.linhas[i].CNPJ # dados_processados[j].CNPJ
        /\ \A i \in 1..Len(Consolidado) : SomaEMediaDoGrupo(Consolidado[i])

\* both outputs were written from a list holding valid and invalid records
\* that carry expenses
C5_Witness ==
    /\ SaiuConsolidado
    /\ arquivos.desvio.escrito
    /\ Consolidado # << >>
    /\ arquivos.desvio.linhas # << >>
    /\ \E j \in 1..Len(dados_processados) :
          /\ ~CnpjBemFormado(dados_processados[j].CNPJ)
          /\ dados_processados[j].ValorDespesas # SemValor

\* the legal names the records of a tax id carry
NomesDoCnpj(cnpj) ==
    {dados_processados[i].RazaoSocial :
        i \in {j \in 1..Len(dados_processados) : dados_processados[j].CNPJ = cnpj}} \ {NaN}

LinhasDoCnpj(cnpj) ==
    {i \in 1..Len(arquivos.duplicados.linhas) : arquivos.duplicados.linhas[i].CNPJ = cnpj}

\* one row for each unordered pair of distinct names, and no other row
ParesDeNomes(cnpj) ==
    LET nomes == NomesDoCnpj(cnpj)
        k == Cardinality(nomes)
        linhas == arquivos.duplicados.linhas
    IN  /\ Cardinality(LinhasDoCnpj(cnpj)) = (k * (k - 1)) \div 2
        /\ \A a, b \in nomes :
              a # b => Cardinality({i \in LinhasDoCnpj(cnpj) :
                                      {linhas[i].RazaoSocial1, linhas[i].RazaoSocial2} = {a, b}}) = 1

\* C6: in the conflict report a tax id whose records carry k distinct legal
\* names yields exactly k(k-1)/2 rows, and a tax id whose records all carry
\* the same name yields none.
C6_ParesDeNomes ==
    (consolidou /\ arquivos.duplicados.escrito) =>
        \A j \in 1..Len(dados_processados) : ParesDeNomes(dados_processados[j].CNPJ)

\* the same, for the tax ids all of whose records carry a legal name
C6_SemNomeAusente ==
    (consolidou /\ arquivos.duplicados.escrito) =>
        \A j \in 1..Len(dados_processados) :
            (\A i \in 1..Len(dados_processados) :
                dados_processados[i].CNPJ = dados_processados[j].CNPJ
                    => dados_processados[i].RazaoSocial # NaN)
            => ParesDeNomes(dados_processados[j].CNPJ)

\* a tax id under three names gave three rows
C6_TresNomesAlcancado ==
    /\ consolidou
    /\ arquivos.duplicados.escrito
    /\ Cardinality(NomesDoCnpj(CnpjA)) = 3
    /\ Cardinality(LinhasDoCnpj(CnpjA)) = 3

----------------------------------------------------------------------------
(* salvar_operadoras_duplicadas_com_inconsistencias, juntar_dados_com_operadoras *)

possiveis_nomes ==
    <<"REGISTRO_OPERADORA", "RegistroANS", "REG_ANS", "REGISTRO_ANS", "CD_REGISTRO_ANS">>

possiveis_nomes_registro ==
    <<"REGISTRO_OPERADORA", "RegistroANS", "REG_ANS", "REGISTRO_ANS", "CD_REGISTRO_ANS">>

SemMatch == "Registro sem match no cadastro"

\* the report of the tax ids that occur more than once with diverging data,
\* and the statistics returned
salvar_operadoras_duplicadas_com_inconsistencias(operadoras) ==
    LET coluna_registro == ResolverColuna(possiveis_nomes_registro, operadoras.colunas)
        colunas_verificar ==
            <<"CNPJ">> \o (IF coluna_registro # Nenhum THEN <<coluna_registro>> ELSE << >>)
                       \o <<"Modalidade", "UF">>
        Ocorrencias(c) == SelectSeq(operadoras.linhas, LAMBDA o : o["CNPJ"] = c)
        repetidos ==
            {c \in {operadoras.linhas[i]["CNPJ"] : i \in 1..Len(operadoras.linhas)} :
                Len(Ocorrencias(c)) > 1}
        \* nunique() > 1: missing values are not counted
        Diverge(c, col) ==
            Cardinality({Ocorrencias(c)[i][col] : i \in 1..Len(Ocorrencias(c))} \ {NaN}) > 1
        Inconsistentes(c) == SelectSeq(Tail(colunas_verificar), LAMBDA col : Diverge(c, col))
        relatados == OrdenarCnpjs({c \in repetidos : Inconsistentes(c) # << >>})
        Registro(c) ==
            [CNPJ |-> c,
             registros |->
                 [i \in 1..Len(Ocorrencias(c)) |->
                     [col \in SeqToSet(Tail(colunas_verificar)) |->
                         [valor |-> Ocorrencias(c)[i][col],
                          inconsistente |-> col \in SeqToSet(Inconsistentes(c))]]],
             Colunas_Inconsistentes |-> Inconsistentes(c),
             Total_Registros |-> Len(Ocorrencias(c))]
    IN  IF ~(SeqToSet(colunas_verificar) \subseteq operadoras.colunas)
        THEN [arquivo |-> NaoEscrito,
              stats |-> [total_cnpjs_duplicados |-> 0, total_com_inconsistencia |-> 0]]
        ELSE [arquivo |-> IF relatados # << >>
                          THEN Escrito([i \in 1..Len(relatados) |-> Registro(relatados[i])])
                          ELSE NaoEscrito,
              stats |-> [total_cnpjs_duplicados |-> Cardinality(repetidos),
                         total_com_inconsistencia |-> Len(relatados)]]

SoDigitos(s) == s # << >> /\ \A i \in 1..Len(s) : s[i] \in Digitos

RECURSIVE SemZerosAEsquerda(_)
SemZerosAEsquerda(s) ==
    IF Len(s) > 1 /\ s[1] = "0" THEN SemZerosAEsquerda(Tail(s)) ELSE s

\* pd.read_csv of the consolidated file: a CNPJ column of digit-only cells
\* is read as int64 (leading zeros are lost), any other as text
read_csv(arq) ==
    LET numerico == arq.linhas # << >>
                    /\ \A i \in 1..Len(arq.linhas) : SoDigitos(arq.linhas[i]["CNPJ"])
    IN  [colunas |-> arq.colunas,
         dtype_cnpj |-> IF numerico THEN "int64" ELSE "object",
         linhas |-> IF numerico
                    THEN [i \in 1..Len(arq.linhas) |->
                            [arq.linhas[i] EXCEPT !["CNPJ"] = SemZerosAEsquerda(@)]]
                    ELSE arq.linhas]

\* mutant of DeduplicarPorCnpj: the registry is joined as it is
SemDeduplicar(linhas, vistos) == linhas

\* drop_duplicates(subset=['CNPJ'], keep='first')
RECURSIVE DeduplicarPorCnpj(_, _)
DeduplicarPorCnpj(linhas, vistos) ==
    IF linhas = << >> THEN << >>
    ELSE IF Head(linhas)["CNPJ"] \in vistos THEN DeduplicarPorCnpj(Tail(linhas), vistos)
    ELSE <<Head(linhas)>>
         \o DeduplicarPorCnpj(Tail(linhas), vistos \cup {Head(linhas)["CNPJ"]})

ColunasDoCadastro == {"RegistroANS", "Modalidade", "UF"}

Enriquecer(r, o) ==
    [c \in DOMAIN r \cup ColunasDoCadastro |-> IF c \in ColunasDoCadastro THEN o[c] ELSE r[c]]

SemCadastro == [c \in ColunasDoCadastro |-> NaN]

\* df_dados.merge(df_operadoras_filtradas, on='CNPJ', how='left')
MergeEsquerda(esq, dir) ==
    Concatenar([i \in 1..Len(esq) |->
        LET casam == SelectSeq(dir, LAMBDA o : o["CNPJ"] = esq[i]["CNPJ"])
        IN  IF casam = << >> THEN <<Enriquecer(esq[i], SemCadastro)>>
            ELSE [k \in 1..Len(casam) |-> Enriquecer(esq[i], casam[k])]])

\* the merge refuses a numeric key against a text key
MergeIncompativel(esq, dir) ==
    /\ esq.linhas # << >>
    /\ dir.linhas # << >>
    /\ esq.dtype_cnpj # dir.dtype_cnpj

\* the merged row left as the merge returned it
SemPreencher(r) == r

\* fillna on the three added columns
Preencher(r) ==
    [c \in DOMAIN r |-> IF c \in ColunasDoCadastro /\ r[c] = NaN THEN SemMatch ELSE r[c]]

\* the deduplication and the renaming act on the table passed in
SemCopia == FALSE

\* drop_duplicates(...).copy() and [[...]].copy(): the deduplication and the
\* rename(inplace=True) act on a new table
CopiaPrivada == TRUE

\* the table of the caller after the deduplication, the selection of the four
\* columns and the renaming gave the rows filtradas
TabelaDoChamador(operadoras, filtradas) ==
    IF CopiaPrivada THEN operadoras
    ELSE [operadoras EXCEPT !.colunas = {"CNPJ", "RegistroANS", "Modalidade", "UF"},
                            !.linhas = filtradas]

\* what juntar_dados_com_operadoras leaves: the exception it raised, the
\* number of rows the merge returned, the enriched file, the report, the
\* statistics and the registry table of the caller
juntar_dados_com_operadoras(arq, operadoras) ==
    LET nada == [erro |-> "", linhas_merge |-> << >>, enriquecido |-> NaoEscrito,
                 inconsistencias |-> NaoEscrito, stats |-> << >>,
                 operadoras |-> operadoras]
    IN  IF ~arq.escrito THEN [nada EXCEPT !.erro = "FileNotFoundError"]
        ELSE IF "CNPJ" \notin arq.colunas THEN [nada EXCEPT !.erro = "KeyError"]
        ELSE IF "CNPJ" \notin operadoras.colunas THEN [nada EXCEPT !.erro = "KeyError"]
        ELSE
        LET verificacao == salvar_operadoras_duplicadas_com_inconsistencias(operadoras)
            relatorio == verificacao.arquivo
            coluna_registro == ResolverColuna(possiveis_nomes, operadoras.colunas)
        IN  IF \/ coluna_registro = Nenhum
               \/ "Modalidade" \notin operadoras.colunas
               \/ "UF" \notin operadoras.colunas
            THEN [nada EXCEPT !.erro = "KeyError", !.inconsistencias = relatorio,
                              !.stats = <<verificacao.stats>>]
            ELSE
            LET df_dados == read_csv(arq)
                num_linhas_original == Len(df_dados.linhas)
                df_operadoras_unicas == DeduplicarPorCnpj(operadoras.linhas, {})
                df_operadoras_filtradas ==
                    [i \in 1..Len(df_operadoras_unicas) |->
                        [CNPJ |-> df_operadoras_unicas[i]["CNPJ"],
                         RegistroANS |-> df_operadoras_unicas[i][coluna_registro],
                         Modalidade |-> df_operadoras_unicas[i]["Modalidade"],
                         UF |-> df_operadoras_unicas[i]["UF"]]]
                depois == TabelaDoChamador(operadoras, df_operadoras_filtradas)
                mesclado == MergeEsquerda(df_dados.linhas, df_operadoras_filtradas)
                df_resultado == [i \in 1..Len(mesclado) |-> Preencher(mesclado[i])]
            IN  IF MergeIncompativel(df_dados, operadoras)
                THEN [nada EXCEPT !.erro = "ValueError (merge)",
                                  !.inconsistencias = relatorio,
                                  !.stats = <<verificacao.stats>>,
                                  !.operadoras = depois]
                ELSE IF Len(df_resultado) # num_linhas_original
                THEN [erro |-> "ValueError (linhas)", linhas_merge |-> <<Len(df_resultado)>>,
                      enriquecido |-> NaoEscrito, inconsistencias |-> relatorio,
                      stats |-> <<verificacao.stats>>, operadoras |-> depois]
                ELSE [erro |-> "", linhas_merge |-> <<Len(df_resultado)>>,
                      enriquecido |-> Escrito(df_resultado), inconsistencias |-> relatorio,
                      stats |-> <<verificacao.stats>>, operadoras |-> depois]

----------------------------------------------------------------------------
(* Specification SpecJoin: juntar_dados_com_operadoras over registry tables *)

\* column layouts of the registry and the type of its CNPJ column
LayoutsDoCadastro ==
    { [colunas |-> {"CNPJ", "REG_ANS", "Razao_Social", "Modalidade", "UF"}, dtype_cnpj |-> "int64"],
      [colunas |-> {"CNPJ", "REG_ANS", "Razao_Social", "Modalidade", "UF"}, dtype_cnpj |-> "object"],
      [colunas |-> {"CNPJ", "REGISTRO_OPERADORA", "REG_ANS", "Modalidade", "UF"},
       dtype_cnpj |-> "int64"],
      [colunas |-> {"REG_ANS", "Modalidade", "UF"}, dtype_cnpj |-> "int64"],
      [colunas |-> {"CNPJ", "Modalidade", "UF"}, dtype_cnpj |-> "int64"],
      [colunas |-> {"CNPJ", "REG_ANS", "UF"}, dtype_cnpj |-> "int64"],
      [colunas |-> {"CNPJ", "REG_ANS", "Modalidade"}, dtype_cnpj |-> "int64"] }

\* tax id, registry number, modality and state of the registry rows: one
\* tax id with diverging and with missing data, and two others
LinhasDeCadastro ==
    { [cnpj |-> CnpjA, reg |-> "111", modalidade |-> "Medicina de Grupo", uf |-> "SP"],
      [cnpj |-> CnpjA, reg |-> "222", modalidade |-> "Cooperativa Medica", uf |-> "SP"],
      [cnpj |-> CnpjA, reg |-> "111", modalidade |-> "Medicina de Grupo", uf |-> NaN],
      [cnpj |-> CnpjB, reg |-> "333", modalidade |-> "Medicina de Grupo", uf |-> "RJ"],
      [cnpj |-> CnpjX, reg |-> "444", modalidade |-> NaN, uf |-> "RJ"] }

LinhaCadastro(colunas, b) ==
    [c \in colunas |->
        CASE c = "CNPJ" -> b.cnpj
          [] c = "REGISTRO_OPERADORA" -> b.reg
          [] c = "REG_ANS" -> IF "REGISTRO_OPERADORA" \in colunas THEN "999" ELSE b.reg
          [] c = "Modalidade" -> b.modalidade
          [] c = "UF" -> b.uf
          [] OTHER -> "Alpha"]

ColunasConsolidado ==
    {"CNPJ", "RazaoSocial", "Trimestre", "Ano", "ValorDespesas", "MediaTrimestral"}

LinhaLida(cnpj, razao, periodo) ==
    LinhaConsolidada(<<cnpj, razao, periodo[1], periodo[2]>>,
                     <<Correlacionado(<<111, cnpj, razao>>, Num(400))>>)

SemColuna(r, coluna) == [c \in DOMAIN r \ {coluna} |-> r[c]]

\* the consolidated file: absent, without rows, with one and with three rows
\* of digit-only tax ids, with a formatted tax id, and without the CNPJ column
ArquivosConsolidados ==
    { [escrito |-> FALSE, colunas |-> {}, linhas |-> << >>],
      [escrito |-> TRUE, colunas |-> ColunasConsolidado, linhas |-> << >>],
      [escrito |-> TRUE, colunas |-> ColunasConsolidado,
       linhas |-> <<LinhaLida(CnpjA, "Alpha", <<1, 2024>>)>>],
      [escrito |-> TRUE, colunas |-> ColunasConsolidado,
       linhas |-> <<LinhaLida(CnpjA, "Alpha", <<1, 2024>>),
                    LinhaLida(CnpjA, "Beta", <<1, 2024>>),
                    LinhaLida(CnpjB, "Alpha", <<4, 2023>>)>>],
      [escrito |-> TRUE, colunas |-> ColunasConsolidado,
       linhas |-> <<LinhaLida(CnpjAFormatado, "Alpha", <<1, 2024>>),
                    LinhaLida(CnpjB, "Alpha", <<1, 2024>>)>>],
      [escrito |-> TRUE, colunas |-> ColunasConsolidado \ {"CNPJ"},
       linhas |-> <<SemColuna(LinhaLida(CnpjA, "Alpha", <<1, 2024>>), "CNPJ")>>] }

InitJoin ==
    /\ arquivo_consolidado \in ArquivosConsolidados
    /\ juntou = FALSE
    /\ erro_juncao = ""
    /\ linhas_merge = << >>
    /\ arq_enriquecido = NaoEscrito
    /\ arq_inconsistencias = NaoEscrito
    /\ stats = << >>
    /\ CnpjParado
    /\ \E layout \in LayoutsDoCadastro :
          df_operadoras = [colunas |-> layout.colunas, dtype_cnpj |-> layout.dtype_cnpj,
                           linhas |-> << >>]
    /\ modulo = "processamento_dados"
    /\ arquivo = [ext |-> ".csv", tabela |-> TabelaVazia]
    /\ itens = 0
    /\ fase = "processado"
    /\ df_despesas = NaoChamada
    /\ colunas_usadas = SemColunas
    /\ correlacao = NaoChamada
    /\ resultados = << >>
    /\ todos_resultados = << >>
    /\ ConsolidacaoParada

foraDeJoin ==
    <<varsCnpj, varsCons, modulo, arquivo, itens, fase, df_despesas, colunas_usadas,
      correlacao, resultados, todos_resultados>>

\* the registry table is handed over with one more row
AcrescentarOperadora ==
    /\ ~juntou
    /\ Len(df_operadoras.linhas) < MaxLinhasCadastro
    /\ \E b \in LinhasDeCadastro :
          df_operadoras' = [df_operadoras EXCEPT
                               !.linhas = Append(@, LinhaCadastro(df_operadoras.colunas, b))]
    /\ UNCHANGED varsJoin
    /\ UNCHANGED foraDeJoin

\* juntar_dados_com_operadoras(caminho_consolidado, df_operadoras)
Juntar ==
    /\ ~juntou
    /\ \E j \in {juntar_dados_com_operadoras(arquivo_consolidado, df_operadoras)} :
           /\ erro_juncao' = j.erro
           /\ linhas_merge' = j.linhas_merge
           /\ arq_enriquecido' = j.enriquecido
           /\ arq_inconsistencias' = j.inconsistencias
           /\ stats' = j.stats
           /\ df_operadoras' = j.operadoras
    /\ juntou' = TRUE
    /\ UNCHANGED arquivo_consolidado
    /\ UNCHANGED foraDeJoin

NextJoin ==
    \/ AcrescentarOperadora
    \/ Juntar

SpecJoin == InitJoin /\ [][NextJoin]_vars

----------------------------------------------------------------------------
(* Claim C3 about juntar_dados_com_operadoras *)

\* C3: for any consolidated table of N rows and any registry table for which
\* juntar_dados_com_operadoras reaches the join, the enriched output has
\* exactly N rows, so the row-count check never raises.
C3_LinhasPreservadas ==
    juntou =>
        /\ erro_juncao # "ValueError (linhas)"
        /\ linhas_merge # << >> => linhas_merge[1] = Len(arquivo_consolidado.linhas)
        /\ arq_enriquecido.escrito =>
              Len(arq_enriquecido.linhas) = Len(arquivo_consolidado.linhas)

\* three rows were joined with a registry that repeats a tax id of theirs
\* and lacks another
C3_Witness ==
    /\ juntou
    /\ arq_enriquecido.escrito
    /\ Len(arq_enriquecido.linhas) = 3
    /\ Cardinality({i \in 1..Len(df_operadoras.linhas) :
                       df_operadoras.linhas[i]["CNPJ"] = CnpjA}) >= 2
    /\ \A i \in 1..Len(df_operadoras.linhas) : df_operadoras.linhas[i]["CNPJ"] # CnpjB

----------------------------------------------------------------------------
(* Specification SpecCelula: ler_despesas over a one-row file whose          *)
(* VL_SALDO_FINAL cell is edited                                             *)

CelulasIniciais ==
    { <<"1", ".", "2", "3", "4", ",", "5", "6">>,
      <<"1", "2", "3", "4", ",", "5", "6">>,
      <<"2", ",", "5">> }

CaracteresDaCelula == {"0", "5", ",", "."}

ColunasDeUmaCelula == {"REG_ANS"} \cup ColunasValores

\* a .csv file with one target row whose VL_SALDO_FINAL holds the cell
ArquivoDeUmaCelula(celula) ==
    [ext |-> ".csv",
     tabela |-> [colunas |-> ColunasDeUmaCelula,
                 linhas |-> <<LinhaDespesa(ColunasDeUmaCelula, 111, DescricaoAlvo, celula)>>]]

InitCelula ==
    /\ \E celula \in CelulasIniciais : arquivo = ArquivoDeUmaCelula(celula)
    /\ df_despesas = ler_despesas(arquivo)
    /\ itens = 0
    /\ modulo = "processamento_dados"
    /\ df_operadoras = TabelaVazia
    /\ fase = "processado"
    /\ colunas_usadas = SemColunas
    /\ correlacao = NaoChamada
    /\ resultados = << >>
    /\ todos_resultados = << >>
    /\ CnpjParado
    /\ ConsolidacaoParada
    /\ JuncaoParada

\* ler_despesas reads the file with the cell written anew
LerCelula(celula) ==
    /\ itens < MaxToques
    /\ itens' = itens + 1
    /\ arquivo' = ArquivoDeUmaCelula(celula)
    /\ df_despesas' = ler_despesas(ArquivoDeUmaCelula(celula))
    /\ UNCHANGED <<modulo, df_operadoras, fase, colunas_usadas, correlacao, resultados,
                   todos_resultados>>
    /\ UNCHANGED foraDeCorr

InserirNaCelula ==
    LET celula == arquivo.tabela.linhas[1]["VL_SALDO_FINAL"]
    IN  \E i \in 0..Len(celula), c \in CaracteresDaCelula :
            LerCelula(SubSeq(celula, 1, i) \o <<c>> \o SubSeq(celula, i + 1, Len(celula)))

RemoverDaCelula ==
    LET celula == arquivo.tabela.linhas[1]["VL_SALDO_FINAL"]
    IN  \E i \in 1..Len(celula) :
            LerCelula(SubSeq(celula, 1, i - 1) \o SubSeq(celula, i + 1, Len(celula)))

NextCelula ==
    \/ InserirNaCelula
    \/ RemoverDaCelula

SpecCelula == InitCelula /\ [][NextCelula]_vars

----------------------------------------------------------------------------
(* Claim C11 about the monetary cells *)

UmaLinhaLida ==
    /\ Len(arquivo.tabela.linhas) = 1
    /\ df_despesas.ok
    /\ Len(df_despesas.df.linhas) = 1

CelulaEscrita == arquivo.tabela.linhas[1]["VL_SALDO_FINAL"]

ValorLido == df_despesas.df.linhas[1]["VL_SALDO_FINAL"]

ParteInteira(celula) ==
    LET virgulas == {i \in 1..Len(celula) : celula[i] = ","}
    IN  IF virgulas = {} THEN celula
        ELSE SubSeq(celula, 1, (CHOOSE i \in virgulas : TRUE) - 1)

ParteDecimal(celula) ==
    LET virgulas == {i \in 1..Len(celula) : celula[i] = ","}
    IN  IF virgulas = {} THEN << >>
        ELSE SubSeq(celula, (CHOOSE i \in virgulas : TRUE) + 1, Len(celula))

\* digits, or groups of three digits set apart by dots after a first group
\* of one to three digits
InteiroBrasileiro(inteiro) ==
    LET n == Len(inteiro)
        pontos == {i \in 1..n : inteiro[i] = "."}
    IN  /\ n > 0
        /\ \A i \in 1..n : inteiro[i] \in Digitos \cup {"."}
        /\ pontos # {} => pontos = {i \in 2..n : (n - i) % 4 = 3}

\* Brazilian notation: the integer part, and after a decimal comma one or
\* two digits
NotacaoBrasileira(celula) ==
    /\ Cardinality({i \in 1..Len(celula) : celula[i] = ","}) <= 1
    /\ InteiroBrasileiro(ParteInteira(celula))
    /\ \A i \in 1..Len(ParteDecimal(celula)) : ParteDecimal(celula)[i] \in Digitos
    /\ Len(ParteDecimal(celula)) <= 2
    /\ (\E i \in 1..Len(celula) : celula[i] = ",") => ParteDecimal(celula) # << >>

\* the value in cents
ValorBrasileiro(celula) ==
    LET decimal == ParteDecimal(celula)
        d(k) == IF k <= Len(decimal) THEN ValorDigito(decimal[k]) ELSE 0
    IN  ValorInteiro(SelectSeq(ParteInteira(celula), EhDigito)) * 100 + d(1) * 10 + d(2)

\* C11: a monetary cell in Brazilian decimal-comma notation parses to its
\* numeric value, also with dots as thousands separators: "1.234,56" parses
\* to 1234.56 and not to a missing value.
C11_NotacaoBrasileira ==
    (UmaLinhaLida /\ NotacaoBrasileira(CelulaEscrita)) =>
        ValorLido = Num(ValorBrasileiro(CelulaEscrita))

\* the same, for the cells without a thousands separator
C11_SemSeparadorDeMilhar ==
    (/\ UmaLinhaLida
     /\ NotacaoBrasileira(CelulaEscrita)
     /\ \A i \in 1..Len(CelulaEscrita) : CelulaEscrita[i] # ".") =>
        ValorLido = Num(ValorBrasileiro(CelulaEscrita))

\* the cell 1.234,56 was read as a missing value
C11_MilharLidoComoAusente ==
    /\ UmaLinhaLida
    /\ CelulaEscrita = <<"1", ".", "2", "3", "4", ",", "5", "6">>
    /\ ValorLido = SemValor

\* the cell 1234,56 was read as 1234.56
C11_SemMilharLido ==
    /\ UmaLinhaLida
    /\ CelulaEscrita = <<"1", "2", "3", "4", ",", "5", "6">>
    /\ ValorLido = Num(123456)

----------------------------------------------------------------------------
(* Specification SpecDireto: a caller hands every extracted file, whatever   *)
(* its extension, to correlacionar_despesas_com_operadoras and accumulates   *)
(* what it returns                                                           *)

InitDireto ==
    /\ modulo \in {"processamento_dados", "main"}
    /\ df_operadoras = OperadorasPadrao
    /\ \E tipo \in TiposDeArquivo : arquivo = ArquivoVazio(tipo)
    /\ itens = 1
    /\ fase = "extraido"
    /\ df_despesas = NaoChamada
    /\ colunas_usadas = SemColunas
    /\ correlacao = NaoChamada
    /\ resultados = << >>
    /\ todos_resultados = << >>
    /\ CnpjParado
    /\ ConsolidacaoParada
    /\ JuncaoParada

NextDireto ==
    \/ ExtrairLinha
    \/ ProximoArquivo
    \/ ChamarCorrelacao

SpecDireto == InitDireto /\ [][NextDireto]_vars

----------------------------------------------------------------------------
(* Claim C12 about files with an unsupported extension *)

\* C12: for a file whose extension is none of .csv, .txt, .xlsx, ler_despesas
\* fails with an error it propagates, correlacionar_despesas_com_operadoras
\* turns the failure into an empty result for that file only, and the
\* records accumulated from the other files are kept.
C12_ExtensaoNaoSuportada ==
    [][(/\ fase = "extraido"
        /\ arquivo.ext \notin ExtensoesSuportadas
        /\ fase' = "processado")
       => /\ df_despesas' = Excecao("ValueError")
          /\ resultados' = << >>
          /\ todos_resultados' = todos_resultados]_vars

\* a file with an unsupported extension was handed over after records of
\* another file had been accumulated
C12_Witness ==
    /\ fase = "processado"
    /\ arquivo.ext \notin ExtensoesSuportadas
    /\ df_despesas = Excecao("ValueError")
    /\ resultados = << >>
    /\ todos_resultados # << >>

----------------------------------------------------------------------------
(* Claim C13 about a missing expected column *)

ColunasEsperadas == {"CNPJ", "RazaoSocial", "Trimestre", "Ano", "ValorDespesas"}

\* the validated records lack an expected column
FaltaColunaEsperada ==
    /\ RegistrosValidos # << >>
    /\ ~(ColunasEsperadas \subseteq Colunas(RegistrosValidos))

\* C13: when an expected column is missing from the validated records,
\* consolidar_dados_em_csv propagates a schema error to its caller; it does
\* not return normally.
C13_ErroDeEsquemaPropagado ==
    (consolidou /\ FaltaColunaEsperada) => levantada # ""

\* what the call does then: the KeyError is caught, the call returns
\* normally, and only the invalid report may have been written
C13_ErroDeEsquemaCapturado ==
    (consolidou /\ FaltaColunaEsperada) =>
        /\ excecao = "KeyError"
        /\ levantada = ""
        /\ ~arquivos.consolidado.escrito
        /\ ~arquivos.desvio.escrito
        /\ ~arquivos.duplicados.escrito

C13_SemPeriodoAlcancado ==
    /\ consolidou
    /\ FaltaColunaEsperada
    /\ excecao = "KeyError"

----------------------------------------------------------------------------
(* Claim C14 about the columns juntar_dados_com_operadoras adds *)

CnpjsDoCadastro == {df_operadoras.linhas[i]["CNPJ"] : i \in 1..Len(df_operadoras.linhas)}

\* the rows of the enriched file whose tax id is in no registry row
LinhasSemMatch ==
    {i \in 1..Len(arq_enriquecido.linhas) :
        arq_enriquecido.linhas[i]["CNPJ"] \notin CnpjsDoCadastro}

\* C14: juntar_dados_com_operadoras adds exactly the columns RegistroANS,
\* Modalidade and UF to the consolidated rows, and a row whose tax id has no
\* match in the registry gets the sentinel text, never a null, in all three.
C14_TresColunasESentinela ==
    (juntou /\ arq_enriquecido.escrito) =>
        /\ \A i \in 1..Len(arq_enriquecido.linhas) :
              /\ DOMAIN arq_enriquecido.linhas[i] =
                    arquivo_consolidado.colunas \cup {"RegistroANS", "Modalidade", "UF"}
              /\ \A c \in arquivo_consolidado.colunas \ {"CNPJ"} :
                    arq_enriquecido.linhas[i][c] = arquivo_consolidado.linhas[i][c]
        /\ \A i \in LinhasSemMatch :
              \A c \in {"RegistroANS", "Modalidade", "UF"} :
                  arq_enriquecido.linhas[i][c] = SemMatch

\* three rows were joined, one without a match and two with one
C14_Witness ==
    /\ juntou
    /\ arq_enriquecido.escrito
    /\ Len(arq_enriquecido.linhas) = 3
    /\ LinhasSemMatch = {3}
    /\ arq_enriquecido.linhas[3]["UF"] = SemMatch
    /\ arq_enriquecido.linhas[1]["RegistroANS"] = "111"

----------------------------------------------------------------------------
(* Claim C15 about the report of diverging registry rows *)

\* the check ran over a registry that has the columns it compares
VerificouCadastro ==
    /\ juntou
    /\ stats # << >>
    /\ {"CNPJ", "Modalidade", "UF"} \subseteq df_operadoras.colunas
    /\ ResolverColuna(possiveis_nomes_registro, df_operadoras.colunas) # Nenhum

ColunasComparadas ==
    {ResolverColuna(possiveis_nomes_registro, df_operadoras.colunas), "Modalidade", "UF"}

OcorrenciasNoCadastro(c) ==
    {i \in 1..Len(df_operadoras.linhas) : df_operadoras.linhas[i]["CNPJ"] = c}

\* two occurrences of the tax id hold different data in a compared column
OcorrenciasDiferem(c) ==
    \E i, j \in OcorrenciasNoCadastro(c) : \E col \in ColunasComparadas :
        df_operadoras.linhas[i][col] # df_operadoras.linhas[j][col]

\* as above, with a missing cell taken to differ from no other cell
OcorrenciasDiferemEmValores(c) ==
    \E i, j \in OcorrenciasNoCadastro(c) : \E col \in ColunasComparadas :
        /\ df_operadoras.linhas[i][col] # NaN
        /\ df_operadoras.linhas[j][col] # NaN
        /\ df_operadoras.linhas[i][col] # df_operadoras.linhas[j][col]

CnpjsRelatados ==
    IF arq_inconsistencias.escrito
    THEN {arq_inconsistencias.linhas[k]["CNPJ"] : k \in 1..Len(arq_inconsistencias.linhas)}
    ELSE {}

TotaisDoRelatorio ==
    /\ arq_inconsistencias.escrito =>
          /\ \A k \in 1..Len(arq_inconsistencias.linhas) :
                arq_inconsistencias.linhas[k]["Total_Registros"] =
                    Cardinality(OcorrenciasNoCadastro(arq_inconsistencias.linhas[k]["CNPJ"]))
          /\ Cardinality(CnpjsRelatados) = Len(arq_inconsistencias.linhas)
    /\ stats[1].total_com_inconsistencia = Cardinality(CnpjsRelatados)

\* C15: salvar_operadoras_duplicadas_com_inconsistencias reports a tax id if
\* and only if it occurs at least twice in the raw registry table and its
\* occurrences differ in registry number, Modalidade or UF; identical
\* duplicates are not reported, Total_Registros is the number of occurrences
\* of the tax id and total_com_inconsistencia the number of reported tax ids.
C15_RelataSeESomenteSeDiferem ==
    VerificouCadastro =>
        /\ \A c \in CnpjsDoCadastro :
              c \in CnpjsRelatados <=>
                  (Cardinality(OcorrenciasNoCadastro(c)) >= 2 /\ OcorrenciasDiferem(c))
        /\ CnpjsRelatados \subseteq CnpjsDoCadastro
        /\ TotaisDoRelatorio

\* what the check does: a tax id is reported exactly when two of its
\* occurrences hold different values, neither of them missing
C15_RelataValoresDistintos ==
    VerificouCadastro =>
        /\ \A c \in CnpjsDoCadastro :
              c \in CnpjsRelatados <=>
                  (Cardinality(OcorrenciasNoCadastro(c)) >= 2 /\ OcorrenciasDiferemEmValores(c))
        /\ CnpjsRelatados \subseteq CnpjsDoCadastro
        /\ TotaisDoRelatorio

\* a tax id occurs with a state and without one, and nothing is reported
C15_UfAusenteNaoRelatada ==
    /\ VerificouCadastro
    /\ \E c \in CnpjsDoCadastro : OcorrenciasDiferem(c) /\ c \notin CnpjsRelatados

\* a tax id with diverging registry numbers is reported
C15_DivergenciaRelatada ==
    /\ VerificouCadastro
    /\ CnpjsRelatados # {}

----------------------------------------------------------------------------
(* Claim C16 about the two partitions of filtrar_cnpjs_invalidos *)

IndicesInvalidos ==
    {i \in 1..Len(dados_processados) : ~CnpjBemFormado(dados_processados[i].CNPJ)}

\* the (CNPJ, REG_ANS, RazaoSocial) triples of the records whose tax id fails
TriplasInvalidas ==
    {<<dados_processados[i].CNPJ, dados_processados[i].reg_ans,
       dados_processados[i].RazaoSocial>> : i \in IndicesInvalidos}

LinhasDoRelatorioDeInvalidos ==
    IF arquivos.invalidos.escrito THEN arquivos.invalidos.linhas ELSE << >>

TriplaDaLinha(l) == <<l.CNPJ, l.REG_ANS, l.RazaoSocial>>

\* C16: the invalid report has exactly one row for each distinct
\* (CNPJ, REG_ANS, RazaoSocial) triple among the records whose tax id fails
\* validation and no row for a record whose tax id is valid;
\* filtrar_cnpjs_invalidos returns the valid records unchanged and in their
\* input order, so every record is in exactly one of the two partitions.
C16_ParticaoDosRegistros ==
    consolidou =>
        /\ {TriplaDaLinha(LinhasDoRelatorioDeInvalidos[k]) :
               k \in 1..Len(LinhasDoRelatorioDeInvalidos)} = TriplasInvalidas
        /\ Len(LinhasDoRelatorioDeInvalidos) = Cardinality(TriplasInvalidas)
        /\ \A k \in 1..Len(LinhasDoRelatorioDeInvalidos) :
              ~CnpjBemFormado(LinhasDoRelatorioDeInvalidos[k].CNPJ)
        /\ dados_validos = RegistrosValidos
        /\ Len(dados_validos) + Cardinality(IndicesInvalidos) = Len(dados_processados)

\* two records of one invalid triple and two valid records were filtered
C16_Witness ==
    /\ consolidou
    /\ Cardinality(IndicesInvalidos) = 2
    /\ Len(LinhasDoRelatorioDeInvalidos) = 1
    /\ Len(dados_validos) = 2

----------------------------------------------------------------------------
(* Specification SpecOrdem: consolidar_dados_em_csv over the lists built     *)
(* record by record from the empty list; claim C17 about their order         *)

InitOrdem ==
    /\ dados_processados = << >>
    /\ acrescimos = 0
    /\ consolidou = FALSE
    /\ arquivos = NenhumArquivo
    /\ excecao = ""
    /\ levantada = ""
    /\ dados_validos = << >>
    /\ ordem_escrita = << >>
    /\ CnpjParado
    /\ CorrelacaoParada
    /\ JuncaoParada

SpecOrdem == InitOrdem /\ [][NextCons]_vars

\* the record lists that hold the records of dados in another order
Reordenacoes(dados) ==
    {[i \in 1..Len(dados) |-> dados[p[i]]] : p \in Permutations(1..Len(dados))}

\* C17: consolidar_dados_em_csv run on any permutation of the record list
\* writes the identical consolidated table: the same rows with the same
\* values in the same row order.
C17_OrdemIndiferente ==
    consolidou =>
        \A outra \in Reordenacoes(dados_processados) :
            consolidar_dados_em_csv(outra).arquivos.consolidado = arquivos.consolidado

ChaveDaLinha(l) == <<l.CNPJ, l.RazaoSocial, l.Trimestre, l.Ano>>

\* two records were consolidated into two rows, the record given last in the
\* first row
C17_Witness ==
    /\ consolidou
    /\ SaiuConsolidado
    /\ Len(dados_processados) = 2
    /\ Len(Consolidado) = 2
    /\ Chave(dados_processados[2]) = ChaveDaLinha(Consolidado[1])
    /\ Chave(dados_processados[1]) = ChaveDaLinha(Consolidado[2])

----------------------------------------------------------------------------
(* Claim C18 about the records the conflict detection sees *)

\* the tax ids that at least two distinct legal names are recorded for
CnpjsEmConflito ==
    {dados_processados[j].CNPJ : j \in 1..Len(dados_processados)} \cap
        {c \in {CnpjA, CnpjB, CnpjX} : Cardinality(NomesDoCnpj(c)) >= 2}

CnpjsNoRelatorioDeConflitos ==
    IF arquivos.duplicados.escrito
    THEN {arquivos.duplicados.linhas[i].CNPJ : i \in 1..Len(arquivos.duplicados.linhas)}
    ELSE {}

\* C18: for every input list, every tax id with at least two distinct legal
\* names among all the records, valid or invalid, appears in the conflict
\* report, also when the tax id fails validation and when no record of the
\* list has a valid tax id.
C18_ConflitosDeTodosOsRegistros ==
    consolidou => CnpjsEmConflito \subseteq CnpjsNoRelatorioDeConflitos

\* what the call does: the tax ids in conflict, invalid ones included, are
\* reported when the consolidated table is written, and no report is written
\* when it is not
C18_ConflitosSoComConsolidado ==
    consolidou =>
        /\ arquivos.consolidado.escrito => CnpjsEmConflito = CnpjsNoRelatorioDeConflitos
        /\ ~arquivos.consolidado.escrito => ~arquivos.duplicados.escrito

\* stamped records of an invalid tax id under two names, none of them with a
\* valid tax id: no conflict report
C18_SoInvalidosSemRelatorio ==
    /\ consolidou
    /\ dados_processados # << >>
    /\ Carimbados(dados_processados)
    /\ RegistrosValidos = << >>
    /\ CnpjX \in CnpjsEmConflito
    /\ ~arquivos.duplicados.escrito

\* an invalid tax id under two names is reported beside valid records
C18_InvalidoRelatado ==
    /\ consolidou
    /\ CnpjX \in CnpjsEmConflito
    /\ CnpjX \in CnpjsNoRelatorioDeConflitos

----------------------------------------------------------------------------
(* Claim C19 about the expenses of a conflict-report row *)

\* the position of the first record of the tax id that carries the name
PrimeiroRegistro(cnpj, nome) ==
    CHOOSE i \in 1..Len(dados_processados) :
        /\ dados_processados[i].CNPJ = cnpj
        /\ dados_processados[i].RazaoSocial = nome
        /\ \A j \in 1..(i - 1) :
              ~(dados_processados[j].CNPJ = cnpj /\ dados_processados[j].RazaoSocial = nome)

DespesasDosPrimeirosRegistros(l) ==
    /\ l.ValorDespesas1 =
          dados_processados[PrimeiroRegistro(l.CNPJ, l.RazaoSocial1)].ValorDespesas
    /\ l.ValorDespesas2 =
          dados_processados[PrimeiroRegistro(l.CNPJ, l.RazaoSocial2)].ValorDespesas

\* no two records of the tax id carry the same legal name
NomesSemRepeticao(cnpj) ==
    \A i, j \in 1..Len(dados_processados) :
        (/\ i # j
         /\ dados_processados[i].CNPJ = cnpj
         /\ dados_processados[j].CNPJ = cnpj)
        => dados_processados[i].RazaoSocial # dados_processados[j].RazaoSocial

\* C19: in every conflict-report row ValorDespesas1 is the expense of the
\* first record of that tax id whose legal name is RazaoSocial1 and
\* ValorDespesas2 that of the first record whose legal name is RazaoSocial2,
\* also when a name occurs in several records before the other first appears.
C19_DespesasDosNomes ==
    (consolidou /\ arquivos.duplicados.escrito) =>
        \A i \in 1..Len(arquivos.duplicados.linhas) :
            DespesasDosPrimeirosRegistros(arquivos.duplicados.linhas[i])

\* what the rows hold when every record of the tax id carries another name
C19_DespesasSemRepeticao ==
    (consolidou /\ arquivos.duplicados.escrito) =>
        \A i \in 1..Len(arquivos.duplicados.linhas) :
            NomesSemRepeticao(arquivos.duplicados.linhas[i].CNPJ)
                => DespesasDosPrimeirosRegistros(arquivos.duplicados.linhas[i])

\* a name occurs twice before the other name, and the row of the two names
\* holds the expense of the second record as ValorDespesas2
C19_SegundoRegistroNoLugarDoNome ==
    /\ consolidou
    /\ arquivos.duplicados.escrito
    /\ Len(dados_processados) = 3
    /\ \A i \in 1..3 : dados_processados[i].CNPJ = CnpjA
    /\ dados_processados[1].RazaoSocial = "Alpha"
    /\ dados_processados[2].RazaoSocial = "Alpha"
    /\ dados_processados[3].RazaoSocial = "Beta"
    /\ dados_processados[2].ValorDespesas # dados_processados[3].ValorDespesas
    /\ arquivos.duplicados.linhas[1].ValorDespesas2 = dados_processados[2].ValorDespesas

\* two records of a tax id under two names gave a row with their expenses
C19_UmRegistroPorNome ==
    /\ consolidou
    /\ arquivos.duplicados.escrito
    /\ Len(arquivos.duplicados.linhas) = 1
    /\ NomesSemRepeticao(arquivos.duplicados.linhas[1].CNPJ)
    /\ arquivos.duplicados.linhas[1].ValorDespesas1 # arquivos.duplicados.linhas[1].ValorDespesas2

----------------------------------------------------------------------------
(* Claim C20 about the period of the accumulated records *)

C20_RegistrosSemPeriodo ==
    \A i \in 1..Len(todos_resultados) :
        /\ DOMAIN todos_resultados[i] \cap {"Trimestre", "Ano"} = {}
        /\ modulo = "processamento_dados" =>
              DOMAIN todos_resultados[i] = {"reg_ans", "CNPJ", "RazaoSocial", "ValorDespesas"}

\* records of two files were accumulated
C20_RegistrosAcumulados ==
    /\ modulo = "processamento_dados"
    /\ fase = "processado"
    /\ resultados # << >>
    /\ Len(todos_resultados) > Len(resultados)

----------------------------------------------------------------------------
(* Claim C21 about records whose expense is missing *)

\* the expenses, present or missing, of the valid records of the row's group
TodasAsDespesasDaChave(k) ==
    LET doGrupo == SelectSeq(RegistrosValidos, LAMBDA r : Chave(r) = k)
    IN  [i \in 1..Len(doGrupo) |-> doGrupo[i].ValorDespesas]

\* sum and mean of the row are taken over the expenses present: the mean of
\* none is missing, and their sum is 0
AusentesForaDaSomaEDaMedia(linha) ==
    LET despesas == DespesasDaChave(Chave(linha))
        n == Len(despesas)
        total == Somar(despesas)
    IN  /\ linha.ValorDespesas = total
        /\ n = 0 => linha.MediaTrimestral = SemValor
        /\ n > 0 =>
             /\ linha.MediaTrimestral # SemValor
             /\ 2 * (linha.MediaTrimestral[1] * n - total) <= n
             /\ 2 * (total - linha.MediaTrimestral[1] * n) <= n

\* C21: a record whose expense is missing never aborts the consolidation and
\* is never counted as a zero expense: it is left out of the sum and of the
\* count of the mean of its group, also when every expense of the group is
\* missing.
C21_DespesaAusente ==
    (/\ consolidou
     /\ dados_processados # << >>
     /\ Carimbados(dados_processados)
     /\ \E i \in 1..Len(dados_processados) : dados_processados[i].ValorDespesas = SemValor)
    => /\ excecao = ""
       /\ levantada = ""
       /\ RegistrosValidos # << >> => arquivos.consolidado.escrito
       /\ arquivos.consolidado.escrito =>
             \A i \in 1..Len(Consolidado) : AusentesForaDaSomaEDaMedia(Consolidado[i])

\* beside a row of two expenses, a row of a group whose two expenses are both
\* missing states no mean
C21_Witness ==
    /\ SaiuConsolidado
    /\ excecao = ""
    /\ \E i, j \in 1..Len(Consolidado) :
          /\ TodasAsDespesasDaChave(Chave(Consolidado[i])) = <<Num(400), Num(200)>>
          /\ TodasAsDespesasDaChave(Chave(Consolidado[j])) = <<SemValor, SemValor>>
          /\ Consolidado[j].ValorDespesas = 0
          /\ Consolidado[j].MediaTrimestral = SemValor

\* ler_despesas raises nothing on a cell it cannot parse and keeps the row,
\* its expense missing
C21_CelulaIlegivelMantida ==
    (/\ Len(arquivo.tabela.linhas) = 1
     /\ df_despesas # NaoChamada
     /\ ConverterMonetario(CelulaEscrita) = SemValor)
    => /\ df_despesas.ok
       /\ Len(df_despesas.df.linhas) = 1
       /\ df_despesas.df.linhas[1]["DESPESA"] = SemValor

C21_CelulaIlegivelLida ==
    /\ UmaLinhaLida
    /\ ConverterMonetario(CelulaEscrita) = SemValor

----------------------------------------------------------------------------
(* Specification SpecFalha: consolidar_dados_em_csv when a to_csv may raise  *)
(* OSError; claim C22 about exceptions other than KeyError                   *)

\* the file whose write fails, or none
PontosDeFalha == {"nenhuma", "invalidos", "desvio", "duplicados", "consolidado"}

\* consolidar_dados_em_csv(dados_processados, caminho_saida) on a file system
\* that may refuse one of the writes
ConsolidarSobFalha ==
    /\ ~consolidou
    /\ \E falha \in PontosDeFalha :
       \E c \in {ConsolidarComFalha(dados_processados, falha)} :
           /\ arquivos' = c.arquivos
           /\ excecao' = c.excecao
           /\ levantada' = c.levantada
           /\ dados_validos' = c.dados_validos
           /\ ordem_escrita' = OrdemDeEscrita(c.arquivos)
    /\ consolidou' = TRUE
    /\ UNCHANGED <<dados_processados, acrescimos>>
    /\ UNCHANGED foraDeCons

NextFalha ==
    \/ AcrescentarRegistro
    \/ ConsolidarSobFalha

SpecFalha == InitCons /\ [][NextFalha]_vars

\* C22: when an exception other than the schema error occurs inside
\* consolidar_dados_em_csv, the call returns normally and none of the four
\* outputs has been written by it.
C22_ExcecaoSemEfeito ==
    (consolidou /\ excecao = "OSError") =>
        /\ levantada = ""
        /\ arquivos = NenhumArquivo

\* what the call does: it returns normally, the file whose write failed and
\* the files after it are not written, the files before it are
C22_EscritasAnterioresFicam ==
    (consolidou /\ excecao = "OSError") =>
        /\ levantada = ""
        /\ ~arquivos.consolidado.escrito
        /\ arquivos.duplicados.escrito => arquivos.desvio.escrito
        /\ (arquivos.desvio.escrito /\ IndicesInvalidos # {}) => arquivos.invalidos.escrito

\* the write of the consolidated table failed after the invalid report and
\* the deviation report were written
C22_FalhaDepoisDeEscrever ==
    /\ consolidou
    /\ excecao = "OSError"
    /\ levantada = ""
    /\ ordem_escrita = <<"invalidos", "desvio">>

----------------------------------------------------------------------------
(* Claim C23 about the order of the stages *)

\* the position of the file in the order of writing, 0 when it was not written
PosicaoNaEscrita(nome) ==
    IF \E i \in 1..Len(ordem_escrita) : ordem_escrita[i] = nome
    THEN CHOOSE i \in 1..Len(ordem_escrita) : ordem_escrita[i] = nome
    ELSE 0

\* the standard deviation is in no column of the consolidated table
DesvioForaDoConsolidado ==
    arquivos.consolidado.escrito =>
        \A i \in 1..Len(Consolidado) :
            DOMAIN Consolidado[i] =
                {"CNPJ", "RazaoSocial", "Trimestre", "Ano", "ValorDespesas", "MediaTrimestral"}

\* C23: the stages run in the order Validate, Conflict detection, Aggregate,
\* Variability: the conflict report is produced before the aggregation and
\* before the standard-deviation report, and the standard deviation is
\* written to a report of its own, never into the consolidated output.
C23_ConflitosAntesDoDesvio ==
    consolidou =>
        /\ (arquivos.duplicados.escrito /\ arquivos.desvio.escrito) =>
              PosicaoNaEscrita("duplicados") < PosicaoNaEscrita("desvio")
        /\ DesvioForaDoConsolidado

\* the order the call keeps: invalid report, standard-deviation report,
\* conflict report, consolidated table, the deviation in no column of the last
C23_ConflitosDepoisDoDesvio ==
    consolidou =>
        /\ \A a, b \in 1..Len(NomesDosArquivos) :
              (/\ a < b
               /\ arquivos[NomesDosArquivos[a]].escrito
               /\ arquivos[NomesDosArquivos[b]].escrito)
              => PosicaoNaEscrita(NomesDosArquivos[a]) < PosicaoNaEscrita(NomesDosArquivos[b])
        /\ arquivos.duplicados.escrito => arquivos.desvio.escrito
        /\ DesvioForaDoConsolidado

\* the four files were written, the conflict report third
C23_QuatroArquivosEscritos ==
    /\ consolidou
    /\ ordem_escrita = <<"invalidos", "desvio", "duplicados", "consolidado">>

----------------------------------------------------------------------------
(* Claim C24 about the registry table of the caller *)

C24_CadastroIntactoNaCorrelacao ==
    [][fase' = "processado" => df_operadoras' = df_operadoras]_vars

----------------------------------------------------------------------------
(* Claim C25 about the rows that hold the sentinel *)

\* the first registry row with the tax id
PrimeiraDoCadastro(cnpj) ==
    df_operadoras.linhas[CHOOSE i \in OcorrenciasNoCadastro(cnpj) :
                            \A j \in OcorrenciasNoCadastro(cnpj) : i <= j]

\* the registry column that feeds the added column
ColunaDeOrigem(c) ==
    IF c = "RegistroANS" THEN ResolverColuna(possiveis_nomes, df_operadoras.colunas) ELSE c

\* C25: in the enriched output a row holds the sentinel in RegistroANS,
\* Modalidade or UF only if its CNPJ has no row in the registry table, and a
\* row whose CNPJ is in the registry holds in each of the three columns the
\* value of the first registry row with that CNPJ.
C25_SentinelaSoSemMatch ==
    (juntou /\ arq_enriquecido.escrito) =>
        \A i \in 1..Len(arq_enriquecido.linhas) :
            LET linha == arq_enriquecido.linhas[i] IN
            /\ (\E c \in ColunasDoCadastro : linha[c] = SemMatch)
                  => linha["CNPJ"] \notin CnpjsDoCadastro
            /\ linha["CNPJ"] \in CnpjsDoCadastro =>
                  \A c \in ColunasDoCadastro :
                      linha[c] = PrimeiraDoCadastro(linha["CNPJ"])[ColunaDeOrigem(c)]

\* what the rows hold: a matched row has the values of the first registry row
\* with its CNPJ, and the sentinel where that row has no value
C25_SentinelaTambemComMatch ==
    (juntou /\ arq_enriquecido.escrito) =>
        \A i \in 1..Len(arq_enriquecido.linhas) :
            LET linha == arq_enriquecido.linhas[i] IN
            /\ linha["CNPJ"] \notin CnpjsDoCadastro =>
                  \A c \in ColunasDoCadastro : linha[c] = SemMatch
            /\ linha["CNPJ"] \in CnpjsDoCadastro =>
                  \A c \in ColunasDoCadastro :
                      LET valor == PrimeiraDoCadastro(linha["CNPJ"])[ColunaDeOrigem(c)]
                      IN  linha[c] = IF valor = NaN THEN SemMatch ELSE valor

\* a row whose CNPJ is in the registry holds the sentinel as its UF
C25_SentinelaComMatch ==
    /\ juntou
    /\ arq_enriquecido.escrito
    /\ \E i \in 1..Len(arq_enriquecido.linhas) :
          /\ arq_enriquecido.linhas[i]["CNPJ"] \in CnpjsDoCadastro
          /\ arq_enriquecido.linhas[i]["UF"] = SemMatch
          /\ arq_enriquecido.linhas[i]["RegistroANS"] = "111"

====
